---- MODULE Spec2Model ----
(***************************************************************************)
(* Akari invariant engine: the evaluation engine (internal/engine), the    *)
(* controller authority map (internal/authority), the invariant DSL        *)
(* (internal/dsl) and the in-memory state store (internal/state).          *)
(*                                                                         *)
(* Conventions of the model                                                *)
(*  - A field path is a tuple of its segments, <<"spec","nodeName">> for   *)
(*    "spec.nodeName"; strings.HasPrefix is the tuple-prefix relation.     *)
(*  - A dynamically typed Go value (interface{}) is a record with a type   *)
(*    tag t and one payload field per type, so that values of different    *)
(*    dynamic types can be compared.                                       *)
(*  - A *ViolationResult is a sequence of length 0 (nil) or 1.             *)
(*  - A reason string is a record: the template of the innermost message,  *)
(*    its field and value arguments, and the chain of "Dependency X        *)
(*    failed: " prefixes put in front of it (outermost first).             *)
(*  - Iteration over a Go map visits the keys in an unspecified order: an  *)
(*    operator that depends on it yields the set of its possible results.  *)
(*  - The wall-clock fields DetectedAt and Duration are left out; the     *)
(*    Timestamp of a log entry is the number of the append that wrote it.  *)
(***************************************************************************)
EXTENDS Integers, Sequences, FiniteSets, TLC

VARIABLES
    events,         \* MemoryStore.events: append-only history
    latestByUID,    \* MemoryStore.latestByUID
    uidsByKind,     \* MemoryStore.uidsByKind
    pg,             \* PostgresStore: the tables of its database and its in-memory cache
    mappings,       \* ControllerAuthorityMap.mappings
    invariants,     \* EvaluationEngine.invariants (shared with InvariantEngine)
    evaluationLog,  \* EvaluationEngine.evaluationLog
    emu,            \* EvaluationEngine.mu: the goroutine holding the write lock, the readers
    logging,        \* per goroutine: its position in logEvaluation and its locals
    nReturned,      \* number of EvaluateWithContext invocations that have returned
    stack,          \* per goroutine: the call stack of evaluate operations
    retval,         \* per goroutine: the value the last popped frame returned
    status,         \* per goroutine: "idle" or "running"
    call,           \* per goroutine: the top-level call in progress or just done
    last,           \* per goroutine: the invocation that returned last in its call
    done,           \* the last completed top-level calls with what they returned
    nAppended,      \* number of logEvaluation calls so far
    nCalls,         \* number of top-level calls started so far
    mu,             \* MemoryStore.mu: the goroutine holding the write lock, the readers
    local,          \* per store goroutine: its position in Record or GetLatestByKind and its locals
    observed,       \* what the GetLatestByKind calls of the store goroutines returned
    inserted,       \* the keys of mappings in the order of their first addAuthority
    answers         \* the authority map's answers to the lookups made so far

vars == <<events, latestByUID, uidsByKind, mappings, invariants, pg, emu, logging, nReturned, evaluationLog,
          stack, retval, status, call, last, done, nAppended, nCalls,
          mu, local, observed, inserted, answers>>

(***************************************************************************)
(* Bounds                                                                  *)
(***************************************************************************)
MaxEvents == 2
MaxEventsAll == 1
MaxCalls == 1
MaxDepth == 3
MaxStoreEvents == 3
NumRecorders == 3
MaxReads == 2
MaxLookups == 2
LogExtra == 3
HistoryLen == 2
NumEvaluators == 2

\* The goroutines that call the engine. All but the specification of concurrent
\* evaluations let goroutine 1 call alone.
Threads == 1..NumEvaluators

(***************************************************************************)
(* Values (interface{})                                                    *)
(***************************************************************************)
Null == [t |-> "nil", b |-> FALSE, n |-> 0, s |-> "", a |-> <<>>]
VBool(x) == [t |-> "bool", b |-> x, n |-> 0, s |-> "", a |-> <<>>]
VInt(x) == [t |-> "int", b |-> FALSE, n |-> x, s |-> "", a |-> <<>>]
VFloat(x) == [t |-> "float64", b |-> FALSE, n |-> x, s |-> "", a |-> <<>>]
VStr(x) == [t |-> "string", b |-> FALSE, n |-> 0, s |-> x, a |-> <<>>]
VArr(x) == [t |-> "array", b |-> FALSE, n |-> 0, s |-> "", a |-> x]
VInt32(x) == [t |-> "int32", b |-> FALSE, n |-> x, s |-> "", a |-> <<>>]
VInt64(x) == [t |-> "int64", b |-> FALSE, n |-> x, s |-> "", a |-> <<>>]
VFloat32(x) == [t |-> "float32", b |-> FALSE, n |-> x, s |-> "", a |-> <<>>]
\* A value that is neither nil, a bool, a string, a number nor a slice: an
\* empty map[string]interface{}
VMap == [t |-> "map", b |-> FALSE, n |-> 0, s |-> "", a |-> <<>>]

\* Go's == on two interface{} values: "panic" when both hold the same
\* uncomparable dynamic type (a slice, a map), otherwise "eq" or "ne".
GoEquals(v, w) ==
    IF v.t # w.t THEN "ne"
    ELSE IF v.t \in {"array", "map"} THEN "panic"
    ELSE IF v = w THEN "eq" ELSE "ne"

\* In a case that lists several types the switch variable keeps the type
\* interface{}: v != 0 compares it with an int 0 and v != 0.0 with a
\* float64 0, as interface values (dynamic type and value).
isTruthy(v) ==
    CASE v.t = "bool" -> v.b
      [] v.t = "string" -> v.s # "" /\ v.s # "False" /\ v.s # "false"
      [] v.t \in {"int", "int32", "int64"} -> GoEquals(v, VInt(0)) # "eq"
      [] v.t \in {"float32", "float64"} -> GoEquals(v, VFloat(0)) # "eq"
      [] v.t = "nil" -> FALSE
      [] OTHER -> TRUE

\* toNumber: <<number, ok>>
toNumber(v) ==
    IF v.t \in {"int", "int32", "int64", "float32", "float64"} THEN <<v.n, TRUE>>
    ELSE <<0, FALSE>>

(***************************************************************************)
(* Field paths                                                             *)
(***************************************************************************)
NoField == <<>>
FDeletion == <<"metadata", "deletionTimestamp">>
FFinalizers == <<"metadata", "finalizers">>
FNodeName == <<"spec", "nodeName">>
FConditions == <<"status", "conditions">>
FReady == <<"status", "conditions", "[Ready]", "status">>
FContainerStatuses == <<"status", "containerStatuses">>
FRunning == <<"status", "containerStatuses", "[*]", "state", "running">>
FEndpoints == <<"endpoints", "[*]", "addresses">>

HasPrefix(s, prefix) ==
    /\ Len(prefix) <= Len(s)
    /\ SubSeq(s, 1, Len(prefix)) = prefix

(***************************************************************************)
(* Reasons                                                                 *)
(***************************************************************************)
Reason(tmpl, field, v, w) ==
    [dep |-> <<>>, tmpl |-> tmpl, field |-> field, val |-> v, want |-> w]

NoReason == Reason("", NoField, Null, Null)

\* fmt.Sprintf("Dependency %s failed: %s", id, r)
DependencyFailed(id, r) == [r EXCEPT !.dep = <<id>> \o r.dep]

(***************************************************************************)
(* Predicates (internal/dsl, engine.evaluatePredicateWithReason)           *)
(***************************************************************************)
Operators == {"equals", "not_equals", "exists", "not_exists", "gt", "lt",
              "contains", "any_true", "all_true"}

Sat == [sat |-> TRUE, panic |-> FALSE, reason |-> NoReason]
Unsat(r) == [sat |-> FALSE, panic |-> FALSE, reason |-> r]
Panic == [sat |-> FALSE, panic |-> TRUE, reason |-> NoReason]

\* The test that a loop over the elements of an array applies to item:
\* isTruthy(item), !isTruthy(item), or item == want.
ElementTest(test, item, want) ==
    CASE test = "truthy" -> isTruthy(item)
      [] test = "notTruthy" -> ~isTruthy(item)
      [] OTHER -> GoEquals(item, want) # "ne"

\* Index of the first element of arr that passes the test, or 0.
FirstIndex(arr, test, want) ==
    IF \E i \in 1..Len(arr) : ElementTest(test, arr[i], want)
    THEN CHOOSE i \in 1..Len(arr) :
            /\ ElementTest(test, arr[i], want)
            /\ \A j \in 1..(i - 1) : ~ElementTest(test, arr[j], want)
    ELSE 0

IsGreater(x, y) == x > y
IsLess(x, y) == x < y

NumericCompare(pred, value, tmpl) ==
    LET num == toNumber(value)
        expected == toNumber(pred.Value)
        holds == IF pred.Operator = "gt" THEN IsGreater(num[1], expected[1])
                 ELSE IsLess(num[1], expected[1])
    IN IF ~num[2] THEN Unsat(Reason("Field %s is not numeric: %v", pred.Field, value, Null))
       ELSE IF ~expected[2] THEN Unsat(Reason("Comparison value is not numeric", NoField, Null, Null))
       ELSE IF ~holds
            THEN Unsat(Reason(tmpl, pred.Field, VFloat(num[1]), VFloat(expected[1])))
       ELSE Sat

evaluatePredicateWithReason(pred, subject) ==
    LET exists == pred.Field \in DOMAIN subject.FieldDiff
        value == IF exists THEN subject.FieldDiff[pred.Field] ELSE Null
    IN CASE pred.Operator = "exists" ->
              IF ~exists THEN Unsat(Reason("Field %s does not exist", pred.Field, Null, Null))
              ELSE Sat
         [] pred.Operator = "not_exists" ->
              IF exists
              THEN Unsat(Reason("Field %s exists but should not (value: %v)", pred.Field, value, Null))
              ELSE Sat
         [] pred.Operator = "equals" ->
              IF ~exists
              THEN Unsat(Reason("Field %s does not exist (expected: %v)", pred.Field, Null, pred.Value))
              ELSE IF GoEquals(value, pred.Value) = "panic" THEN Panic
              ELSE IF GoEquals(value, pred.Value) = "ne"
                   THEN Unsat(Reason("Field %s is '%v' (expected: %v)", pred.Field, value, pred.Value))
              ELSE Sat
         [] pred.Operator = "not_equals" ->
              IF ~exists THEN Sat
              ELSE IF GoEquals(value, pred.Value) = "panic" THEN Panic
              ELSE IF GoEquals(value, pred.Value) = "eq"
                   THEN Unsat(Reason("Field %s is '%v' (must not equal: %v)", pred.Field, value, pred.Value))
              ELSE Sat
         [] pred.Operator = "gt" ->
              IF ~exists THEN Unsat(Reason("Field %s does not exist", pred.Field, Null, Null))
              ELSE NumericCompare(pred, value, "Field %s is %v (must be > %v)")
         [] pred.Operator = "lt" ->
              IF ~exists THEN Unsat(Reason("Field %s does not exist", pred.Field, Null, Null))
              ELSE NumericCompare(pred, value, "Field %s is %v (must be < %v)")
         [] pred.Operator = "any_true" ->
              IF ~exists THEN Unsat(Reason("Field %s does not exist", pred.Field, Null, Null))
              ELSE IF value.t = "array"
                   THEN IF FirstIndex(value.a, "truthy", Null) # 0 THEN Sat
                        ELSE Unsat(Reason("Field %s has no truthy elements", pred.Field, Null, Null))
              ELSE IF isTruthy(value) THEN Sat
              ELSE Unsat(Reason("Field %s is not true", pred.Field, Null, Null))
         [] pred.Operator = "all_true" ->
              IF ~exists THEN Unsat(Reason("Field %s does not exist", pred.Field, Null, Null))
              ELSE IF value.t = "array"
                   THEN IF Len(value.a) = 0
                        THEN Unsat(Reason("Field %s is empty array", pred.Field, Null, Null))
                        ELSE IF FirstIndex(value.a, "notTruthy", Null) # 0
                             THEN Unsat(Reason("Field %s has non-truthy element: %v", pred.Field,
                                               value.a[FirstIndex(value.a, "notTruthy", Null)], Null))
                        ELSE Sat
              ELSE IF isTruthy(value) THEN Sat
              ELSE Unsat(Reason("Field %s is not true", pred.Field, Null, Null))
         [] pred.Operator = "contains" ->
              IF ~exists THEN Unsat(Reason("Field %s does not exist", pred.Field, Null, Null))
              ELSE IF value.t = "array"
                   THEN IF FirstIndex(value.a, "matches", pred.Value) = 0
                        THEN Unsat(Reason("Field %s does not contain %v", pred.Field, Null, pred.Value))
                        ELSE IF GoEquals(value.a[FirstIndex(value.a, "matches", pred.Value)], pred.Value) = "panic"
                             THEN Panic
                        ELSE Sat
              ELSE Unsat(Reason("Field %s is not an array", pred.Field, Null, Null))
         [] OTHER -> Unsat(Reason("Unknown operator: %s", NoField, VStr(pred.Operator), Null))

(***************************************************************************)
(* Controller authority map (internal/authority)                           *)
(***************************************************************************)
\* cam.mappings[field] = controllers
addAuthority(m, field, controllers) ==
    [k \in DOMAIN m \cup {field} |-> IF k = field THEN controllers ELSE m[k]]

RECURSIVE addAuthorities(_, _)
addAuthorities(m, calls) ==
    IF calls = <<>> THEN m
    ELSE addAuthorities(addAuthority(m, calls[1][1], calls[1][2]), Tail(calls))

\* The addAuthority calls of initializeAuthorities, in order, for the fields
\* that the invariants and subjects of this model refer to.
AuthorityCalls == <<
    <<FConditions, <<"kubelet">>>>,
    <<FContainerStatuses, <<"kubelet">>>>,
    <<FNodeName, <<"kube-scheduler">>>>,
    <<FConditions, <<"node-controller", "kubelet">>>>,
    <<FDeletion, <<"garbage-collector">>>>,
    <<FFinalizers, <<"*">>>> >>

initializeAuthorities == addAuthorities(<<>>, AuthorityCalls)

\* The keys of calls in the order of their first insertion, after those of acc
RECURSIVE InsertionOrder(_, _)
InsertionOrder(calls, acc) ==
    IF calls = <<>> THEN acc
    ELSE InsertionOrder(Tail(calls),
                        IF \E i \in 1..Len(acc) : acc[i] = calls[1][1] THEN acc
                        ELSE Append(acc, calls[1][1]))

contains(slice, item) == \E i \in 1..Len(slice) : slice[i] = item

\* The orders in which a range over a map with key set keys may visit them.
RECURSIVE KeyOrders(_)
KeyOrders(keys) ==
    IF keys = {} THEN {<<>>}
    ELSE UNION {{<<k>> \o o : o \in KeyOrders(keys \ {k})} : k \in keys}

\* The possible results of GetAuthorizedControllers(field).
GetAuthorizedControllers(m, field) ==
    IF field \in DOMAIN m THEN {m[field]}
    ELSE IF \E k \in DOMAIN m : HasPrefix(field, k)
         THEN {m[k] : k \in {x \in DOMAIN m : HasPrefix(field, x)}}
    ELSE {<<>>}

\* Appends to acc the controllers of ctrls not yet seen and different from "*".
RECURSIVE appendUnseen(_, _)
appendUnseen(acc, ctrls) ==
    IF ctrls = <<>> THEN acc
    ELSE appendUnseen(IF ~contains(acc, ctrls[1]) /\ ctrls[1] # "*"
                      THEN Append(acc, ctrls[1]) ELSE acc,
                      Tail(ctrls))

RECURSIVE collectControllers(_, _, _)
collectControllers(m, order, acc) ==
    IF order = <<>> THEN acc
    ELSE collectControllers(m, Tail(order), appendUnseen(acc, m[order[1]]))

\* The possible results of GetAllControllers() on the map as constructed.
AllControllersAsConstructed ==
    {collectControllers(initializeAuthorities, o, <<>>) :
        o \in KeyOrders(DOMAIN initializeAuthorities)}

\* The possible results of GetAllControllers().
GetAllControllers(m) ==
    IF m = initializeAuthorities THEN AllControllersAsConstructed
    ELSE {collectControllers(m, o, <<>>) : o \in KeyOrders(DOMAIN m)}

(***************************************************************************)
(* Invariants (internal/dsl, internal/dsl/invariants)                      *)
(***************************************************************************)
NoPredicate == [Field |-> NoField, Operator |-> "", Value |-> Null]
Predicate(field, operator, value) ==
    [Field |-> field, Operator |-> operator, Value |-> value]
Requirement(id, relation) == [Invariant |-> id, Relation |-> relation]

Invariant(id, kind, hasPredicate, predicate, requires, primary) ==
    [ID |-> id, Kind |-> kind, HasPredicate |-> hasPredicate, Predicate |-> predicate,
     Requires |-> requires, Primary |-> primary, Severity |-> "critical"]

GetMVPInvariants == <<
    Invariant("pod_exists", "Pod", TRUE, Predicate(FDeletion, "not_exists", Null),
              <<>>, "garbage-collector"),
    Invariant("pod_scheduled", "Pod", TRUE, Predicate(FNodeName, "exists", Null),
              <<>>, "kube-scheduler"),
    Invariant("node_ready", "Node", TRUE, Predicate(FReady, "equals", VStr("True")),
              <<>>, "node-controller"),
    Invariant("containers_running", "Pod", TRUE, Predicate(FRunning, "all_true", Null),
              <<>>, "kubelet"),
    Invariant("pod_ready", "Pod", TRUE, Predicate(FReady, "equals", VStr("True")),
              <<Requirement("containers_running", "same"), Requirement("node_ready", "node")>>,
              "kubelet"),
    Invariant("service_has_endpoints", "Service", TRUE, Predicate(FEndpoints, "any_true", Null),
              <<Requirement("pod_ready", "selector")>>, "kubelet") >>

\* e.invariants[inv.ID] = inv for each of the MVP invariants
LoadDefaultInvariants ==
    LET ids == {GetMVPInvariants[i].ID : i \in 1..Len(GetMVPInvariants)}
    IN [id \in ids |->
          GetMVPInvariants[CHOOSE i \in 1..Len(GetMVPInvariants) :
              /\ GetMVPInvariants[i].ID = id
              /\ \A j \in (i + 1)..Len(GetMVPInvariants) : GetMVPInvariants[j].ID # id]]

(***************************************************************************)
(* State store (internal/state MemoryStore)                                *)
(***************************************************************************)
StateEvent(uid, kind, name, version, timestamp, fieldDiff) ==
    [UID |-> uid, Kind |-> kind, Namespace |-> "default", Name |-> name,
     Version |-> version, Timestamp |-> timestamp, FieldDiff |-> fieldDiff]

NewMemoryStore == [events |-> <<>>, latestByUID |-> <<>>, uidsByKind |-> <<>>]

\* s.uidsByKind[kind], the empty slice for a kind never recorded
UidsOfKind(byKind, kind) == IF kind \in DOMAIN byKind THEN byKind[kind] ELSE <<>>

\* A store that keeps the first event of a uid as its latest
RecordIntoKeepFirst(s, event) ==
    LET uids == UidsOfKind(s.uidsByKind, event.Kind)
        found == contains(uids, event.UID)
    IN [events |-> Append(s.events, event),
        latestByUID |-> [u \in DOMAIN s.latestByUID \cup {event.UID} |->
                            IF u \in DOMAIN s.latestByUID THEN s.latestByUID[u]
                            ELSE event],
        uidsByKind |-> IF found THEN s.uidsByKind
                       ELSE [k \in DOMAIN s.uidsByKind \cup {event.Kind} |->
                               IF k = event.Kind THEN Append(uids, event.UID)
                               ELSE s.uidsByKind[k]]]

\* The store after Record(event)
RecordInto(s, event) ==
    LET uids == UidsOfKind(s.uidsByKind, event.Kind)
        found == contains(uids, event.UID)
    IN [events |-> Append(s.events, event),
        latestByUID |-> [u \in DOMAIN s.latestByUID \cup {event.UID} |->
                            IF u = event.UID THEN event ELSE s.latestByUID[u]],
        uidsByKind |-> IF found THEN s.uidsByKind
                       ELSE [k \in DOMAIN s.uidsByKind \cup {event.Kind} |->
                               IF k = event.Kind THEN Append(uids, event.UID)
                               ELSE s.uidsByKind[k]]]

RECURSIVE latestOf(_, _)
latestOf(latest, uids) ==
    IF uids = <<>> THEN <<>>
    ELSE (IF uids[1] \in DOMAIN latest THEN <<latest[uids[1]]>> ELSE <<>>)
         \o latestOf(latest, Tail(uids))

GetLatestByKind(kind) == latestOf(latestByUID, UidsOfKind(uidsByKind, kind))

\* GetByUID: <<event>> when present, <<>> otherwise
GetByUID(uid) == IF uid \in DOMAIN latestByUID THEN <<latestByUID[uid]>> ELSE <<>>

Store == [events |-> events, latestByUID |-> latestByUID, uidsByKind |-> uidsByKind]

Record(event, maxEvents) ==
    /\ Len(events) < maxEvents
    /\ \A t \in Threads : status[t] = "idle"
    /\ LET s == RecordInto(Store, event)
       IN /\ events' = s.events
          /\ latestByUID' = s.latestByUID
          /\ uidsByKind' = s.uidsByKind
    /\ UNCHANGED <<mu, local, observed, inserted, answers, mappings, invariants, pg, emu, logging, nReturned, evaluationLog, stack, retval, status, call,
                   last, done, nAppended, nCalls>>

(***************************************************************************)
(* State store (internal/db PostgresStore)                                 *)
(***************************************************************************)
\* Tables objects, object_versions and field_diffs, and the cache.
NewPostgresStore ==
    [objects |-> {}, versions |-> {}, diffs |-> {}, latestByUID |-> <<>>, uidsByKind |-> <<>>]

\* The steps of Record that talk to the database, in order. The insert of
\* the field diffs comes between version and commit; its failure is logged,
\* not returned.
RecordSteps == <<"begin", "upsert", "version", "diffs", "commit">>
StepIndex(step) == CHOOSE i \in 1..Len(RecordSteps) : RecordSteps[i] = step

\* What Record returns when step fails ("": nil).
RecordError(step) ==
    CASE step = "begin" -> "begin failed"
      [] step = "upsert" -> "failed to upsert object"
      [] step = "version" -> "failed to insert object version"
      [] step = "commit" -> "failed to commit transaction"
      [] OTHER -> ""

\* The cache after the update at the end of Record.
CacheUpdate(s, event) ==
    LET uids == UidsOfKind(s.uidsByKind, event.Kind)
        found == contains(uids, event.UID)
    IN [s EXCEPT
          !.latestByUID = [u \in DOMAIN s.latestByUID \cup {event.UID} |->
                              IF u = event.UID THEN event ELSE s.latestByUID[u]],
          !.uidsByKind = IF found THEN s.uidsByKind
                         ELSE [k \in DOMAIN s.uidsByKind \cup {event.Kind} |->
                                 IF k = event.Kind THEN Append(uids, event.UID)
                                 ELSE s.uidsByKind[k]]]

\* The tables after the transaction of Record has committed. withDiffs: the
\* inserts of the field diffs succeeded.
Committed(s, event, withDiffs) ==
    [s EXCEPT
       !.objects = @ \cup {event.UID},
       !.versions = @ \cup {<<event.UID, event.Version>>},
       !.diffs = IF withDiffs
                 THEN @ \cup {<<event.UID, event.Version, f>> : f \in DOMAIN event.FieldDiff}
                 ELSE @]

\* A Record that updates the cache before it commits.
PostgresRecordCacheFirst(s, event, failed) ==
    LET first == CHOOSE i \in 1..Len(RecordSteps) + 1 :
                    /\ i <= Len(RecordSteps) => (RecordSteps[i] \in failed /\ RecordSteps[i] # "diffs")
                    /\ \A j \in 1..(i - 1) : RecordSteps[j] \notin failed \/ RecordSteps[j] = "diffs"
        issued == SubSeq(RecordSteps, 1, IF first > Len(RecordSteps) THEN Len(RecordSteps) ELSE first)
    IN IF first <= Len(RecordSteps)
       THEN [store |-> IF first > StepIndex("version") THEN CacheUpdate(s, event) ELSE s,
             ret |-> RecordError(RecordSteps[first]), issued |-> issued]
       ELSE [store |-> CacheUpdate(Committed(s, event, "diffs" \notin failed), event),
             ret |-> "", issued |-> issued]

\* PostgresStore.Record(event) when the steps in failed fail: the store after
\* it, what it returns and the steps it issued. The transaction is rolled
\* back by the deferred tx.Rollback() unless it committed.
PostgresRecord(s, event, failed) ==
    LET first == CHOOSE i \in 1..Len(RecordSteps) + 1 :
                    /\ i <= Len(RecordSteps) => (RecordSteps[i] \in failed /\ RecordSteps[i] # "diffs")
                    /\ \A j \in 1..(i - 1) : RecordSteps[j] \notin failed \/ RecordSteps[j] = "diffs"
        issued == SubSeq(RecordSteps, 1, IF first > Len(RecordSteps) THEN Len(RecordSteps) ELSE first)
    IN IF first <= Len(RecordSteps)
       THEN [store |-> s, ret |-> RecordError(RecordSteps[first]), issued |-> issued]
       ELSE [store |-> CacheUpdate(Committed(s, event, "diffs" \notin failed), event),
             ret |-> "", issued |-> issued]

\* PostgresStore.GetLatestByKind and GetByUID read the cache.
PostgresGetLatestByKind(s, kind) == latestOf(s.latestByUID, UidsOfKind(s.uidsByKind, kind))
PostgresGetByUID(s, uid) == IF uid \in DOMAIN s.latestByUID THEN <<s.latestByUID[uid]>> ELSE <<>>

(***************************************************************************)
(* Locks                                                                   *)
(***************************************************************************)
\* sync.RWMutex: writer is the goroutine holding the write lock (0: none),
\* readers the goroutines holding the read lock.
NewMutex == [writer |-> 0, readers |-> {}]

\* The goroutines that call the store concurrently: the recorders and one reader
Recorders == 1..NumRecorders
Reader == 0
Goroutines == Recorders \cup {Reader}
Idle == [pc |-> "idle", event |-> <<>>, kind |-> "", events |-> <<>>, uids |-> <<>>,
         found |-> FALSE, results |-> <<>>]

(***************************************************************************)
(* Evaluation engine (internal/engine)                                     *)
(***************************************************************************)
MaxLogEntries == 1000

ViolationResult(id, violated, reason, actor, eliminated, resource, severity) ==
    [InvariantID |-> id, Violated |-> violated, Reason |-> reason,
     ResponsibleActor |-> actor, EliminatedActors |-> eliminated,
     AffectedResource |-> resource, Severity |-> severity]

\* fmt.Sprintf("%s/%s", ctx.Resource.Namespace, ctx.Resource.Name)
AffectedResource(subject) == <<subject.Namespace, subject.Name>>

\* Attribution that ignores the authority map
primaryIsResponsible(m, inv) == {inv.Primary}

\* The possible results of determineResponsibility(inv, resource).
determineResponsibility(m, inv) ==
    IF inv.HasPredicate
    THEN {IF Len(authorized) = 1 THEN authorized[1]
          ELSE IF contains(authorized, inv.Primary) THEN inv.Primary
          ELSE inv.Primary :
             authorized \in GetAuthorizedControllers(m, inv.Predicate.Field)}
    ELSE {inv.Primary}

\* eliminateActors without the comparison controller != primary.
RECURSIVE notAuthorizedOnly(_, _, _)
notAuthorizedOnly(all, authorized, primary) ==
    IF all = <<>> THEN <<>>
    ELSE (IF ~contains(authorized, all[1]) THEN <<all[1]>> ELSE <<>>)
         \o notAuthorizedOnly(Tail(all), authorized, primary)

RECURSIVE notAuthorized(_, _, _)
notAuthorized(all, authorized, primary) ==
    IF all = <<>> THEN <<>>
    ELSE (IF all[1] # primary /\ ~contains(authorized, all[1]) THEN <<all[1]>> ELSE <<>>)
         \o notAuthorized(Tail(all), authorized, primary)

\* eliminateActors without the comparison with the authorized controllers.
eliminateAllButPrimary(m, field, primary) ==
    {notAuthorized(all, <<>>, primary) : all \in GetAllControllers(m)}

\* The possible results of eliminateActors(field, primary).
eliminateActors(m, field, primary) ==
    {notAuthorized(all, authorized, primary) :
        authorized \in GetAuthorizedControllers(m, field), all \in GetAllControllers(m)}

EvaluationLogEntry(invID, resourceUID, result, reason) ==
    [InvariantID |-> invID, ResourceUID |-> resourceUID, Result |-> result,
     Reason |-> reason, Timestamp |-> 0]

\* logEvaluation without the eviction.
logEvaluationUnbounded(log, entry) == Append(log, entry)

\* The log after logEvaluation appended entry.
logEvaluation(log, entry) ==
    LET appended == Append(log, entry)
    IN IF Len(appended) > MaxLogEntries
       THEN SubSeq(appended, Len(appended) - MaxLogEntries + 1, Len(appended))
       ELSE appended

\* Stats that count the satisfied entries as violations
statsCountingSatisfied(log, registry) ==
    [total_evaluations |-> Len(log),
     violations_found |-> Cardinality({k \in 1..Len(log) : log[k].Result}),
     total_invariants |-> Cardinality(DOMAIN registry)]

\* GetEvaluationStats(); avg_duration_ms is left out with the durations.
GetEvaluationStats(log, registry) ==
    [total_evaluations |-> Len(log),
     violations_found |-> Cardinality({k \in 1..Len(log) : ~log[k].Result}),
     total_invariants |-> Cardinality(DOMAIN registry)]

\* evaluateDependency without the case RelationNode.
evaluateDependencyWithoutNode(registry, req) ==
    IF req.Invariant \notin DOMAIN registry
    THEN ViolationResult(req.Invariant, TRUE,
             Reason("Required invariant not registered", NoField, Null, Null),
             "", <<>>, <<"", "">>, "")
    ELSE ViolationResult(registry[req.Invariant].ID, TRUE,
             IF req.Relation \in {"owner", "selector"}
             THEN Reason("Dependency relation not supported by StateStore", NoField, Null, Null)
             ELSE Reason("Unknown dependency relation", NoField, Null, Null),
             "", <<>>, <<"", "">>, "")

\* evaluateDependency for a requirement it answers itself: the target is
\* not registered, or the relation is not same (a requirement with relation
\* same on a registered target is the recursive call, see EvaluateRequirement).
evaluateDependency(registry, req) ==
    IF req.Invariant \notin DOMAIN registry
    THEN ViolationResult(req.Invariant, TRUE,
             Reason("Required invariant not registered", NoField, Null, Null),
             "", <<>>, <<"", "">>, "")
    ELSE ViolationResult(registry[req.Invariant].ID, TRUE,
             IF req.Relation \in {"owner", "node", "selector"}
             THEN Reason("Dependency relation not supported by StateStore", NoField, Null, Null)
             ELSE Reason("Unknown dependency relation", NoField, Null, Null),
             "", <<>>, <<"", "">>, "")

\* The violation for a failed requirement with the requiring invariant's own
\* primary actor in place of the child's.
DependencyViolationOwnActor(inv, subject, reqInv, depViolation) ==
    ViolationResult(inv.ID, TRUE, DependencyFailed(reqInv.ID, depViolation.Reason),
        inv.Primary, depViolation.EliminatedActors,
        AffectedResource(subject), inv.Severity)

\* The violation EvaluateWithContext returns for a failed requirement.
DependencyViolation(inv, subject, reqInv, depViolation) ==
    ViolationResult(inv.ID, TRUE, DependencyFailed(reqInv.ID, depViolation.Reason),
        depViolation.ResponsibleActor, depViolation.EliminatedActors,
        AffectedResource(subject), inv.Severity)

NoInvariant == Invariant("", "", FALSE, NoPredicate, <<>>, "")
NoSubject == StateEvent("", "", "", "", 0, <<>>)

\* A stack frame of goroutine t: an invocation of EvaluateWithContext
\* ("ewc"), Evaluate ("evaluate") or EvaluateAll ("all"), its position pc,
\* its loop index i and locals, and the log entries appended during it.
Frame(kind, inv, subject, pc) ==
    [kind |-> kind, inv |-> inv, subject |-> subject, pc |-> pc, i |-> 1,
     subjects |-> <<>>, acc |-> <<>>, todo |-> {}, trace |-> <<>>]

\* What an invocation that has returned leaves for its caller to see.
Returned(frame, ret) ==
    [kind |-> frame.kind, inv |-> frame.inv, subject |-> frame.subject,
     subjects |-> frame.subjects, ret |-> ret, trace |-> frame.trace]

NoReturn == Returned(Frame("", NoInvariant, NoSubject, ""), <<>>)

Front(s) == SubSeq(s, 1, Len(s) - 1)
Top(t) == stack[t][Len(stack[t])]
Running(t, kind, pc) ==
    /\ status[t] = "running"
    /\ stack[t] # <<>>
    /\ Top(t).kind = kind
    /\ Top(t).pc = pc
\* The number of EvaluateWithContext invocations on the stack of goroutine t.
Depth(t) == Cardinality({k \in 1..Len(stack[t]) : stack[t][k].kind = "ewc"})
KeepLast(s, n) == IF Len(s) > n THEN SubSeq(s, Len(s) - n + 1, Len(s)) ELSE s

\* Goroutine t moves on inside its top frame.
Goto(t, frame) ==
    /\ stack' = [stack EXCEPT ![t] = Front(@) \o <<frame>>]
    /\ UNCHANGED <<mu, local, observed, inserted, answers, events, latestByUID, uidsByKind, mappings, invariants, pg, emu, logging, nReturned, evaluationLog,
                   retval, status, call, last, done, nAppended, nCalls>>

\* Goroutine t calls: its top frame becomes frame, and callee goes on top.
Push(t, frame, callee) ==
    /\ stack' = [stack EXCEPT ![t] = Front(@) \o <<frame, callee>>]
    /\ UNCHANGED <<mu, local, observed, inserted, answers, events, latestByUID, uidsByKind, mappings, invariants, pg, emu, logging, nReturned, evaluationLog,
                   retval, status, call, last, done, nAppended, nCalls>>

\* The top frame of goroutine t returns ret, after handing entries (at most
\* one) to logEvaluation.
Pop(t, ret, entries) ==
    LET stamped == [k \in 1..Len(entries) |->
                       [entries[k] EXCEPT !.Timestamp = nAppended + k]]
        popped == [Top(t) EXCEPT !.trace = @ \o stamped]
        rest == Front(stack[t])
    IN /\ evaluationLog' = IF stamped = <<>> THEN evaluationLog
                           ELSE logEvaluation(evaluationLog, stamped[1])
       /\ nAppended' = nAppended + Len(stamped)
       /\ nReturned' = IF Top(t).kind = "ewc" THEN nReturned + 1 ELSE nReturned
       /\ stack' = [stack EXCEPT ![t] =
              IF rest = <<>> THEN <<>>
              ELSE Front(rest) \o <<[rest[Len(rest)] EXCEPT !.trace = @ \o popped.trace]>>]
       /\ retval' = [retval EXCEPT ![t] = ret]
       /\ last' = [last EXCEPT ![t] = Returned(popped, ret)]
       /\ IF rest = <<>>
          THEN /\ status' = [status EXCEPT ![t] = "idle"]
               /\ done' = KeepLast(Append(done, [call[t] EXCEPT !.ret = ret]), HistoryLen)
          ELSE UNCHANGED <<status, done>>
       /\ UNCHANGED <<mu, local, observed, inserted, answers, events, latestByUID, uidsByKind, mappings, invariants, pg, emu, logging, call, nCalls>>

\* A panic unwinds the whole stack of goroutine t: the call returns nothing.
Unwind(t) ==
    /\ stack' = [stack EXCEPT ![t] = <<>>]
    /\ status' = [status EXCEPT ![t] = "idle"]
    /\ done' = KeepLast(Append(done, [call[t] EXCEPT !.panicked = TRUE]), HistoryLen)
    /\ UNCHANGED <<mu, local, observed, inserted, answers, events, latestByUID, uidsByKind, mappings, invariants, pg, emu, logging, nReturned, evaluationLog,
                   retval, call, last, nAppended, nCalls>>

Begin(t, op, inv, subject, frame, maxCalls) ==
    /\ status[t] = "idle"
    /\ nCalls < maxCalls
    /\ nCalls' = nCalls + 1
    /\ status' = [status EXCEPT ![t] = "running"]
    /\ stack' = [stack EXCEPT ![t] = <<frame>>]
    /\ call' = [call EXCEPT ![t] = [op |-> op, inv |-> inv, subject |-> subject,
                                    store |-> Store, ret |-> <<>>, panicked |-> FALSE]]
    /\ last' = [last EXCEPT ![t] = NoReturn]
    /\ UNCHANGED <<mu, local, observed, inserted, answers, events, latestByUID, uidsByKind, mappings, invariants, pg, emu, logging, nReturned, evaluationLog,
                   retval, done, nAppended>>

\* A caller invokes EvaluationEngine.EvaluateWithContext(inv, ctx).
CallEvaluateWithContext(t, inv, subject, maxCalls) ==
    Begin(t, "EvaluateWithContext", inv, subject, Frame("ewc", inv, subject, "start"), maxCalls)

\* A caller invokes InvariantEngine.Evaluate(inv).
CallEvaluate(t, inv, maxCalls) ==
    Begin(t, "Evaluate", inv, NoSubject, Frame("evaluate", inv, NoSubject, "start"), maxCalls)

\* A caller invokes InvariantEngine.EvaluateAll().
CallEvaluateAll(t, maxCalls) ==
    Begin(t, "EvaluateAll", NoInvariant, NoSubject,
          [Frame("all", NoInvariant, NoSubject, "loop") EXCEPT !.todo = DOMAIN invariants],
          maxCalls)

\* EvaluateWithContext without the return of step 1: the requirements are
\* evaluated whatever the predicate says.
EvaluatePredicateThenRequirements(t) ==
    /\ Running(t, "ewc", "start")
    /\ Goto(t, [Top(t) EXCEPT !.pc = "deps"])

\* EvaluateWithContext, step 1: the predicate. Unsatisfied: the violation is
\* built (step 2: responsibility and elimination), logged and returned.
EvaluatePredicate(t) ==
    /\ Running(t, "ewc", "start")
    /\ LET f == Top(t)
           r == evaluatePredicateWithReason(f.inv.Predicate, f.subject)
       IN IF ~f.inv.HasPredicate \/ (~r.panic /\ r.sat)
          THEN Goto(t, [f EXCEPT !.pc = "deps"])
          ELSE IF r.panic THEN Unwind(t)
          ELSE \E actor \in determineResponsibility(mappings, f.inv) :
               \E eliminated \in eliminateActors(mappings, f.inv.Predicate.Field, actor) :
                  Pop(t, <<ViolationResult(f.inv.ID, TRUE, r.reason, actor, eliminated,
                                           AffectedResource(f.subject), f.inv.Severity)>>,
                      <<EvaluationLogEntry(f.inv.ID, f.subject.UID, FALSE, r.reason)>>)

\* EvaluateWithContext, step 3, with a check the engine does not make: a
\* requirement whose invariant is already being evaluated is skipped.
EvaluateRequirementOnce(t) ==
    /\ Running(t, "ewc", "deps")
    /\ LET f == Top(t)
           req == f.inv.Requires[f.i]
           reqInv == invariants[req.Invariant]
           depViolation == evaluateDependency(invariants, req)
           violation == DependencyViolation(f.inv, f.subject, reqInv, depViolation)
           visiting == {stack[t][k].inv.ID : k \in 1..Len(stack[t])}
       IN IF f.i > Len(f.inv.Requires)
          THEN Pop(t, <<>>, <<EvaluationLogEntry(f.inv.ID, f.subject.UID, TRUE,
                                                 Reason("satisfied", NoField, Null, Null))>>)
          ELSE IF req.Invariant \notin DOMAIN invariants \/ req.Invariant \in visiting
          THEN Goto(t, [f EXCEPT !.i = @ + 1])
          ELSE IF req.Relation = "same"
          THEN /\ Depth(t) < MaxDepth
               /\ Push(t, [f EXCEPT !.pc = "wait"], Frame("ewc", reqInv, f.subject, "start"))
          ELSE Pop(t, <<violation>>,
                   <<EvaluationLogEntry(f.inv.ID, f.subject.UID, FALSE, violation.Reason)>>)

\* EvaluateWithContext, step 3: the next requirement, or the end of the loop.
EvaluateRequirement(t) ==
    /\ Running(t, "ewc", "deps")
    /\ LET f == Top(t)
           req == f.inv.Requires[f.i]
           reqInv == invariants[req.Invariant]
           depViolation == evaluateDependency(invariants, req)
           violation == DependencyViolation(f.inv, f.subject, reqInv, depViolation)
       IN IF f.i > Len(f.inv.Requires)
          THEN Pop(t, <<>>, <<EvaluationLogEntry(f.inv.ID, f.subject.UID, TRUE,
                                                 Reason("satisfied", NoField, Null, Null))>>)
          ELSE IF req.Invariant \notin DOMAIN invariants
          THEN Goto(t, [f EXCEPT !.i = @ + 1])
          ELSE IF req.Relation = "same"
          THEN /\ Depth(t) < MaxDepth
               /\ Push(t, [f EXCEPT !.pc = "wait"], Frame("ewc", reqInv, f.subject, "start"))
          ELSE Pop(t, <<violation>>,
                   <<EvaluationLogEntry(f.inv.ID, f.subject.UID, FALSE, violation.Reason)>>)

\* EvaluateWithContext, step 3: the recursive evaluation of a requirement
\* with relation same has returned.
DependencyReturned(t) ==
    /\ Running(t, "ewc", "wait")
    /\ LET f == Top(t)
           reqInv == invariants[f.inv.Requires[f.i].Invariant]
           violation == DependencyViolation(f.inv, f.subject, reqInv, retval[t][1])
       IN IF retval[t] # <<>>
          THEN Pop(t, <<violation>>,
                   <<EvaluationLogEntry(f.inv.ID, f.subject.UID, FALSE, violation.Reason)>>)
          ELSE Goto(t, [f EXCEPT !.pc = "deps", !.i = @ + 1])

\* An Evaluate whose read of the store takes the uids out of the per-kind index.
EvaluateSubjectsDraining(t) ==
    /\ Running(t, "evaluate", "start")
    /\ stack' = [stack EXCEPT ![t] =
          Front(@) \o <<[Top(t) EXCEPT !.pc = "loop",
                                       !.subjects = GetLatestByKind(Top(t).inv.Kind)]>>]
    /\ uidsByKind' = [k \in DOMAIN uidsByKind |->
                         IF k = Top(t).inv.Kind THEN <<>> ELSE uidsByKind[k]]
    /\ UNCHANGED <<mu, local, observed, inserted, answers, events, latestByUID, mappings,
                   invariants, pg, emu, logging, nReturned, evaluationLog,
                   retval, status, call, last, done, nAppended, nCalls>>

\* Evaluate: subjects := e.store.GetLatestByKind(inv.Subject.Kind)
EvaluateSubjects(t) ==
    /\ Running(t, "evaluate", "start")
    /\ Goto(t, [Top(t) EXCEPT !.pc = "loop", !.subjects = GetLatestByKind(Top(t).inv.Kind)])

\* Evaluate: evaluateSubject for the next subject, or return the violations.
EvaluateSubject(t) ==
    /\ Running(t, "evaluate", "loop")
    /\ LET f == Top(t)
       IN IF f.i > Len(f.subjects)
          THEN Pop(t, f.acc, <<>>)
          ELSE Push(t, [f EXCEPT !.pc = "wait"], Frame("ewc", f.inv, f.subjects[f.i], "start"))

\* Evaluate appending a result for every subject, with violated = false for
\* a satisfied one.
SubjectReturnedEveryResult(t) ==
    /\ Running(t, "evaluate", "wait")
    /\ LET f == Top(t)
           satisfied == ViolationResult(f.inv.ID, FALSE,
                            Reason("satisfied", NoField, Null, Null), "", <<>>,
                            AffectedResource(f.subjects[f.i]), f.inv.Severity)
       IN Goto(t, [f EXCEPT !.pc = "loop", !.i = @ + 1,
                            !.acc = @ \o (IF retval[t] = <<>> THEN <<satisfied>>
                                          ELSE retval[t])])

\* Evaluate: if violation != nil, append it.
SubjectReturned(t) ==
    /\ Running(t, "evaluate", "wait")
    /\ Goto(t, [Top(t) EXCEPT !.pc = "loop", !.i = @ + 1, !.acc = @ \o retval[t]])

\* EvaluateAll: Evaluate the next invariant of the range over e.invariants,
\* or return the violations.
EvaluateNext(t) ==
    /\ Running(t, "all", "loop")
    /\ LET f == Top(t)
       IN IF f.todo = {}
          THEN Pop(t, f.acc, <<>>)
          ELSE \E id \in f.todo :
                  Push(t, [f EXCEPT !.pc = "wait", !.todo = @ \ {id}],
                       Frame("evaluate", invariants[id], NoSubject, "start"))

\* EvaluateAll: violations = append(violations, results...)
InvariantReturned(t) ==
    /\ Running(t, "all", "wait")
    /\ Goto(t, [Top(t) EXCEPT !.pc = "loop", !.acc = @ \o retval[t]])

(***************************************************************************)
(* Inputs: the resources and the invariants that callers pass              *)
(***************************************************************************)
Healthy ==
    (FNodeName :> VStr("node-1")) @@ (FReady :> VStr("True"))
    @@ (FRunning :> VArr(<<VBool(TRUE), VBool(TRUE)>>))
ContainerDown ==
    (FNodeName :> VStr("node-1")) @@ (FReady :> VStr("True"))
    @@ (FRunning :> VArr(<<VBool(TRUE), VBool(FALSE)>>))
NotReady ==
    (FNodeName :> VStr("node-1")) @@ (FReady :> VStr("False"))
    @@ (FRunning :> VArr(<<VBool(TRUE), VBool(FALSE)>>))
Unscheduled ==
    (FReady :> VStr("True")) @@ (FRunning :> VArr(<<VBool(TRUE), VBool(FALSE)>>))
\* "spec.nodeName": nil
NodeNameNull ==
    (FNodeName :> Null) @@ (FReady :> VStr("True"))
    @@ (FRunning :> VArr(<<VBool(TRUE), VBool(TRUE)>>))
Empty == <<>>

\* The resources that callers of EvaluateWithContext put in the context.
ContextSubjects ==
    {StateEvent("pod-1", "Pod", "pod-1", "1", 1, d) :
        d \in {Healthy, ContainerDown, NotReady, Unscheduled, NodeNameNull, Empty}}

\* Invariants that callers build themselves and hand to EvaluateWithContext
\* (they are not in the registry).
CallerInvariants == {
    Invariant("pod_ready", "Pod", TRUE, Predicate(FReady, "equals", VStr("True")),
              <<>>, "kubelet"),
    Invariant("needs_ghost", "Pod", FALSE, NoPredicate,
              <<Requirement("ghost", "same")>>, "kubelet"),
    Invariant("ghost_first", "Pod", TRUE, Predicate(FReady, "exists", Null),
              <<Requirement("ghost", "same"), Requirement("containers_running", "same")>>,
              "kubelet"),
    Invariant("pod_healthy", "Pod", TRUE, Predicate(FReady, "equals", VStr("True")),
              <<Requirement("pod_scheduled", "same"), Requirement("containers_running", "same")>>,
              "kubelet"),
    Invariant("pod_serving", "Pod", FALSE, NoPredicate,
              <<Requirement("pod_ready", "same")>>, "service-controller"),
    Invariant("pod_owned", "Pod", FALSE, NoPredicate,
              <<Requirement("pod_exists", "owner")>>, "replicaset-controller"),
    Invariant("pod_sibling", "Pod", FALSE, NoPredicate,
              <<Requirement("pod_exists", "sibling")>>, "kubelet"),
    Invariant("node_assigned", "Pod", TRUE, Predicate(FNodeName, "exists", Null),
              <<>>, "kubelet"),
    Invariant("pod_available", "Pod", TRUE, Predicate(FReady, "equals", VStr("True")),
              <<>>, "deployment-controller"),
    Invariant("containers_all_up", "Pod", TRUE,
              Predicate(FRunning, "equals", VArr(<<VBool(TRUE), VBool(TRUE)>>)),
              <<>>, "kubelet"),
    Invariant("containers_listed", "Pod", TRUE,
              Predicate(FRunning, "contains", VArr(<<VBool(TRUE)>>)),
              <<>>, "kubelet"),
    Invariant("ready_count", "Pod", TRUE, Predicate(FReady, "gt", VInt(0)),
              <<>>, "kubelet") }

Registered == {invariants[id] : id \in DOMAIN invariants}
InputInvariants == Registered \cup CallerInvariants

(***************************************************************************)
(* The engine as constructed, and under a caller of EvaluateWithContext    *)
(***************************************************************************)
\* A goroutine outside logEvaluation.
NotLogging == [pc |-> "idle", entry |-> <<>>, ret |-> <<>>, slice |-> <<>>]

NoCall == [op |-> "", inv |-> NoInvariant, subject |-> NoSubject, store |-> NewMemoryStore,
           ret |-> <<>>, panicked |-> FALSE]

Init ==
    /\ events = NewMemoryStore.events
    /\ latestByUID = NewMemoryStore.latestByUID
    /\ uidsByKind = NewMemoryStore.uidsByKind
    /\ mappings = initializeAuthorities
    /\ invariants = LoadDefaultInvariants
    /\ evaluationLog = <<>>
    /\ stack = [t \in Threads |-> <<>>]
    /\ retval = [t \in Threads |-> <<>>]
    /\ status = [t \in Threads |-> "idle"]
    /\ call = [t \in Threads |-> NoCall]
    /\ last = [t \in Threads |-> NoReturn]
    /\ done = <<>>
    /\ nAppended = 0
    /\ nCalls = 0
    /\ pg = NewPostgresStore
    /\ emu = NewMutex
    /\ logging = [t \in Threads |-> NotLogging]
    /\ nReturned = 0
    /\ mu = NewMutex
    /\ local = [g \in Goroutines |-> Idle]
    /\ observed = <<>>
    /\ inserted = InsertionOrder(AuthorityCalls, <<>>)
    /\ answers = <<>>

Next ==
    \/ \E inv \in InputInvariants, s \in ContextSubjects :
          CallEvaluateWithContext(1, inv, s, MaxCalls)
    \/ EvaluatePredicate(1)
    \/ EvaluateRequirement(1)
    \/ DependencyReturned(1)

Spec == Init /\ [][Next]_vars

(***************************************************************************)
(* The engine under one caller that evaluates the same invariant against   *)
(* the same subject again and again, until the log has been appended to    *)
(* more than MaxLogEntries times.                                          *)
(***************************************************************************)
LogInvariants ==
    {LoadDefaultInvariants["containers_running"], LoadDefaultInvariants["pod_ready"]}
LogSubjects == {StateEvent("pod-1", "Pod", "pod-1", "1", 1, Healthy)}

RepeatEvaluateWithContext(t, maxAppended) ==
    /\ nAppended < maxAppended
    /\ \E inv \in LogInvariants, s \in LogSubjects :
          /\ call[t].op # "" => (inv = call[t].inv /\ s = call[t].subject)
          /\ CallEvaluateWithContext(t, inv, s, nCalls + 1)

\* The state after LogPrefill evaluations of containers_running against a
\* healthy pod, each satisfied: where the caller below is after that many
\* rounds (AfterPrefill states that the rounds from Init lead here).
LogPrefill == MaxLogEntries - LogExtra
PrefillInvariant == LoadDefaultInvariants["containers_running"]
PrefillSubject == StateEvent("pod-1", "Pod", "pod-1", "1", 1, Healthy)
PrefillEntry(k) ==
    [EvaluationLogEntry(PrefillInvariant.ID, PrefillSubject.UID, TRUE,
                        Reason("satisfied", NoField, Null, Null))
        EXCEPT !.Timestamp = k]
PrefillCall ==
    [op |-> "EvaluateWithContext", inv |-> PrefillInvariant, subject |-> PrefillSubject,
     store |-> NewMemoryStore, ret |-> <<>>, panicked |-> FALSE]
Prefilled ==
    /\ events = NewMemoryStore.events
    /\ latestByUID = NewMemoryStore.latestByUID
    /\ uidsByKind = NewMemoryStore.uidsByKind
    /\ mappings = initializeAuthorities
    /\ invariants = LoadDefaultInvariants
    /\ evaluationLog = [k \in 1..LogPrefill |-> PrefillEntry(k)]
    /\ stack = [t \in Threads |-> <<>>]
    /\ retval = [t \in Threads |-> <<>>]
    /\ status = [t \in Threads |-> "idle"]
    /\ call = [t \in Threads |-> PrefillCall]
    /\ last = [t \in Threads |->
                 Returned([Frame("ewc", PrefillInvariant, PrefillSubject, "deps")
                              EXCEPT !.trace = <<PrefillEntry(LogPrefill)>>], <<>>)]
    /\ done = [k \in 1..HistoryLen |-> PrefillCall]
    /\ nAppended = LogPrefill
    /\ nCalls = LogPrefill
    /\ pg = NewPostgresStore
    /\ emu = NewMutex
    /\ logging = [t \in Threads |-> NotLogging]
    /\ nReturned = LogPrefill
    /\ mu = NewMutex
    /\ local = [g \in Goroutines |-> Idle]
    /\ observed = <<>>
    /\ inserted = InsertionOrder(AuthorityCalls, <<>>)
    /\ answers = <<>>

AfterPrefill ==
    (/\ nAppended = LogPrefill
     /\ status[1] = "idle"
     /\ call[1].inv = PrefillInvariant) => Prefilled

InitLog == Init \/ Prefilled

NextLog ==
    \/ RepeatEvaluateWithContext(1, MaxLogEntries + LogExtra)
    \/ EvaluatePredicate(1)
    \/ EvaluateRequirement(1)
    \/ DependencyReturned(1)

SpecLog == InitLog /\ [][NextLog]_vars

(***************************************************************************)
(* The engine under a caller of EvaluateAll, over a store of nodes: two    *)
(* calls against the same store can be compared.                           *)
(***************************************************************************)
NodeEvents ==
    {StateEvent("node-1", "Node", "node-1", "1", 1, (FReady :> VStr("True"))),
     StateEvent("node-2", "Node", "node-2", "1", 1, (FReady :> VStr("False")))}

AllEvents ==
    {StateEvent("node-2", "Node", "node-2", "1", 1, (FReady :> VStr("False"))),
     StateEvent("pod-1", "Pod", "pod-1", "1", 1, Healthy)}

NextAll ==
    \/ \E e \in AllEvents : Record(e, MaxEventsAll)
    \/ CallEvaluateAll(1, HistoryLen)
    \/ EvaluateNext(1)
    \/ InvariantReturned(1)
    \/ EvaluateSubjects(1)
    \/ EvaluateSubject(1)
    \/ SubjectReturned(1)
    \/ EvaluatePredicate(1)
    \/ EvaluateRequirement(1)
    \/ DependencyReturned(1)

SpecAll == Init /\ [][NextAll]_vars

(***************************************************************************)
(* The engine under a caller of EvaluateAll, over a store of pods and      *)
(* nodes in which several invariants have subjects.                        *)
(***************************************************************************)
BulkEvents ==
    NodeEvents \cup {StateEvent(uid, "Pod", uid, "1", 1, Healthy) : uid \in {"pod-1", "pod-2"}}

NextBulk ==
    \/ \E e \in BulkEvents : Record(e, MaxEvents)
    \/ \E inv \in Registered : CallEvaluate(1, inv, MaxCalls)
    \/ CallEvaluateAll(1, MaxCalls)
    \/ EvaluateNext(1)
    \/ InvariantReturned(1)
    \/ EvaluateSubjects(1)
    \/ EvaluateSubject(1)
    \/ SubjectReturned(1)
    \/ EvaluatePredicate(1)
    \/ EvaluateRequirement(1)
    \/ DependencyReturned(1)

SpecBulk == Init /\ [][NextBulk]_vars

(***************************************************************************)
(* What the specification says of one evaluation, stated on the invocation *)
(* that returned last (the variable last) and on the store and registry it *)
(* ran against.                                                            *)
(***************************************************************************)

\* The invocations of EvaluateWithContext that have returned.
ReturnedEwc == {t \in Threads : last[t].kind = "ewc"}

\* inv has a predicate and subject does not satisfy it.
PredicateFails(inv, subject) ==
    /\ inv.HasPredicate
    /\ ~evaluatePredicateWithReason(inv.Predicate, subject).panic
    /\ ~evaluatePredicateWithReason(inv.Predicate, subject).sat

\* inv has no predicate, or subject satisfies it.
PredicateHolds(inv, subject) ==
    \/ ~inv.HasPredicate
    \/ /\ ~evaluatePredicateWithReason(inv.Predicate, subject).panic
       /\ evaluatePredicateWithReason(inv.Predicate, subject).sat

IsViolation(ret) == Len(ret) = 1 /\ ret[1].Violated

\* C1: when the predicate of inv is unsatisfied on the subject, the violation
\* carries the predicate's reason only, and the evaluation logs one entry, for
\* inv itself: no invariant that inv requires is evaluated or logged.
C1_PredicateMasksDependencies ==
    \A t \in ReturnedEwc :
        LET r == last[t] IN
        (PredicateFails(r.inv, r.subject) /\ r.inv.Requires # <<>>) =>
            /\ IsViolation(r.ret)
            /\ r.ret[1].InvariantID = r.inv.ID
            /\ r.ret[1].Reason = evaluatePredicateWithReason(r.inv.Predicate, r.subject).reason
            /\ r.ret[1].Reason.dep = <<>>
            /\ Len(r.trace) = 1
            /\ r.trace[1].InvariantID = r.inv.ID
            /\ r.trace[1].ResourceUID = r.subject.UID
            /\ r.trace[1].Result = FALSE

\* A requirement of inv would fail too, and yet the predicate's violation is
\* what came back.
C1_Witness ==
    \E t \in ReturnedEwc :
        LET r == last[t] IN
        /\ PredicateFails(r.inv, r.subject)
        /\ \E i \in 1..Len(r.inv.Requires) :
              /\ r.inv.Requires[i].Invariant \in DOMAIN invariants
              /\ r.inv.Requires[i].Relation = "same"
              /\ PredicateFails(invariants[r.inv.Requires[i].Invariant], r.subject)
        /\ IsViolation(r.ret)
        /\ Len(r.trace) = 1

\* What the specification calls a violated invariant: the predicate is
\* unsatisfied, or some requirement fails, where a requirement fails when its
\* target is not registered, its relation is not same, or its target is
\* violated for the same subject.
RECURSIVE SpecViolated(_, _, _)
SpecRequirementFails(registry, req, subject) ==
    \/ req.Invariant \notin DOMAIN registry
    \/ req.Relation # "same"
    \/ SpecViolated(registry, registry[req.Invariant], subject)
SpecViolated(registry, inv, subject) ==
    \/ PredicateFails(inv, subject)
    \/ \E i \in 1..Len(inv.Requires) : SpecRequirementFails(registry, inv.Requires[i], subject)

\* The same, with a requirement on an unregistered target left out.
RECURSIVE Violated(_, _, _)
RequirementFails(registry, req, subject) ==
    /\ req.Invariant \in DOMAIN registry
    /\ \/ req.Relation # "same"
       \/ Violated(registry, registry[req.Invariant], subject)
Violated(registry, inv, subject) ==
    \/ PredicateFails(inv, subject)
    \/ \E i \in 1..Len(inv.Requires) : RequirementFails(registry, inv.Requires[i], subject)

\* The index of the first requirement of inv that fails for subject, or 0.
FirstFailing(registry, inv, subject) ==
    LET failing == {i \in 1..Len(inv.Requires) :
                       RequirementFails(registry, inv.Requires[i], subject)}
    IN IF failing = {} THEN 0
       ELSE CHOOSE i \in failing : \A j \in failing : i <= j

\* C2: EvaluateWithContext returns a result if and only if the invariant is
\* violated for the subject (predicate unsatisfied or some requirement fails),
\* every result it returns has violated = true, and it returns nil otherwise.
C2_ResultIffViolated ==
    \A t \in ReturnedEwc :
        LET r == last[t] IN
        /\ (r.ret # <<>>) <=> SpecViolated(invariants, r.inv, r.subject)
        /\ r.ret # <<>> => IsViolation(r.ret)

\* C6: with the predicate absent or satisfied, a requirement that names an
\* invariant missing from the registry yields a violation with reason
\* "Required invariant not registered".
C6_MissingRequirementTarget ==
    \A t \in ReturnedEwc :
        LET r == last[t] IN
        (/\ PredicateHolds(r.inv, r.subject)
         /\ \E i \in 1..Len(r.inv.Requires) :
               r.inv.Requires[i].Invariant \notin DOMAIN invariants) =>
            /\ IsViolation(r.ret)
            /\ r.ret[1].Reason.tmpl = "Required invariant not registered"

\* C5: the responsible actor of a violation is never one of its eliminated
\* actors.
C5_ResponsibleNotEliminated ==
    \A t \in ReturnedEwc :
        LET r == last[t] IN
        IsViolation(r.ret) =>
            ~contains(r.ret[1].EliminatedActors, r.ret[1].ResponsibleActor)

\* A violation whose responsible actor is a known controller that is not
\* authorized for the field: only the comparison with the primary actor
\* keeps it out of the eliminated actors.
C5_Witness ==
    \E t \in ReturnedEwc :
        LET r == last[t] IN
        /\ IsViolation(r.ret)
        /\ PredicateFails(r.inv, r.subject)
        /\ r.ret[1].EliminatedActors # <<>>
        /\ \A auth \in GetAuthorizedControllers(mappings, r.inv.Predicate.Field) :
              ~contains(auth, r.ret[1].ResponsibleActor)
        /\ \E all \in GetAllControllers(mappings) : contains(all, r.ret[1].ResponsibleActor)

\* No actor of the sequence eliminated may be authorized for field.
NoneAuthorized(eliminated, field) ==
    \A authorized \in GetAuthorizedControllers(mappings, field) :
        \A k \in 1..Len(eliminated) : ~contains(authorized, eliminated[k])

Unsupported == Reason("Dependency relation not supported by StateStore", NoField, Null, Null)
UnknownRelation == Reason("Unknown dependency relation", NoField, Null, Null)

\* C4 as stated: for every violation of an invariant with predicate field f,
\* inherited ones included, no eliminated actor is authorized for f.
C4_EliminationAuthority ==
    \A t \in ReturnedEwc :
        LET r == last[t] IN
        (IsViolation(r.ret) /\ r.inv.HasPredicate) =>
            NoneAuthorized(r.ret[1].EliminatedActors, r.inv.Predicate.Field)

\* C4 amended: a violation from the invariant's own unsatisfied predicate on
\* field f eliminates no actor authorized for f; a violation inherited from
\* a failed requirement eliminates no actor authorized for the field of the
\* invariant whose predicate failed at the end of the dependency chain, and
\* eliminates nobody when the chain ends in an unsupported relation.
C4_EliminationAuthorityOfFailingField ==
    \A t \in ReturnedEwc :
        LET r == last[t]
            v == r.ret[1]
            chain == v.Reason.dep
            origin == invariants[chain[Len(chain)]]
        IN IsViolation(r.ret) =>
              IF chain = <<>>
              THEN NoneAuthorized(v.EliminatedActors, r.inv.Predicate.Field)
              ELSE IF [v.Reason EXCEPT !.dep = <<>>] \in {Unsupported, UnknownRelation}
              THEN v.EliminatedActors = <<>>
              ELSE NoneAuthorized(v.EliminatedActors, origin.Predicate.Field)

\* An inherited violation whose eliminated actors include a controller that
\* is authorized for the field of the requiring invariant's own predicate.
C4_Witness ==
    \E t \in ReturnedEwc :
        LET r == last[t] IN
        /\ IsViolation(r.ret)
        /\ r.inv.HasPredicate
        /\ r.ret[1].Reason.dep # <<>>
        /\ r.ret[1].EliminatedActors # <<>>
        /\ ~NoneAuthorized(r.ret[1].EliminatedActors, r.inv.Predicate.Field)

\* The requirements of inv with a registered target and an unsupported relation.
UnsupportedRequirements(inv) ==
    {i \in 1..Len(inv.Requires) :
        /\ inv.Requires[i].Invariant \in DOMAIN invariants
        /\ inv.Requires[i].Relation \in {"owner", "selector", "node"}}

LastEntry(trace, id) ==
    LET at == {k \in 1..Len(trace) : trace[k].InvariantID = id}
    IN IF at = {} THEN 0 ELSE CHOOSE k \in at : \A j \in at : j <= k

\* C8: requirements are checked in declared order against the same subject;
\* at the first one whose evaluation (relation same) yields a violation, the
\* result has the requiring invariant's id and severity, the reason
\* "Dependency {req.invariant} failed: {child.reason}", the child's
\* responsible actor and eliminated actors, and no later requirement is
\* evaluated. Stated on the step in which the requiring evaluation returns:
\* last is then the child's return and last' the parent's.
C8_DependencyPropagation ==
    [][\A t \in Threads :
        LET p == last'[t]
            child == last[t]
            first == FirstFailing(invariants, p.inv, p.subject)
            req == p.inv.Requires[first]
            own == p.trace[Len(p.trace)]
            before == SubSeq(p.trace, 1, Len(p.trace) - Len(child.trace) - 1)
        IN (/\ Len(stack'[t]) < Len(stack[t])
            /\ p.kind = "ewc"
            /\ PredicateHolds(p.inv, p.subject)
            /\ first # 0
            /\ req.Relation = "same") =>
              /\ child.kind = "ewc"
              /\ child.inv = invariants[req.Invariant]
              /\ child.subject = p.subject
              /\ IsViolation(child.ret)
              /\ p.ret = <<ViolationResult(p.inv.ID, TRUE,
                              DependencyFailed(req.Invariant, child.ret[1].Reason),
                              child.ret[1].ResponsibleActor, child.ret[1].EliminatedActors,
                              AffectedResource(p.subject), p.inv.Severity)>>
              /\ Len(p.trace) > Len(child.trace)
              /\ own = [EvaluationLogEntry(p.inv.ID, p.subject.UID, FALSE, p.ret[1].Reason)
                           EXCEPT !.Timestamp = own.Timestamp]
              /\ SubSeq(p.trace, Len(before) + 1, Len(p.trace) - 1) = child.trace
              /\ \A k \in 1..Len(before) : before[k].Result = TRUE
              /\ \A j \in 1..(first - 1) :
                    IF p.inv.Requires[j].Invariant \in DOMAIN invariants
                    THEN /\ LastEntry(before, p.inv.Requires[j].Invariant) # 0
                         /\ \A i \in 1..(j - 1) :
                               LastEntry(before, p.inv.Requires[i].Invariant)
                                  < LastEntry(before, p.inv.Requires[j].Invariant)
                    ELSE LastEntry(before, p.inv.Requires[j].Invariant) = 0
              /\ \A j \in (first + 1)..Len(p.inv.Requires) :
                    LastEntry(p.trace, p.inv.Requires[j].Invariant) = 0
      ]_vars

\* The second requirement failed after the first was satisfied, and the
\* violation carries the child's actors.
C8_Witness ==
    \E t \in ReturnedEwc :
        LET r == last[t]
            first == FirstFailing(invariants, r.inv, r.subject)
        IN /\ PredicateHolds(r.inv, r.subject)
           /\ first > 1
           /\ r.inv.Requires[first].Relation = "same"
           /\ IsViolation(r.ret)
           /\ r.ret[1].Reason.dep = <<r.inv.Requires[first].Invariant>>
           /\ r.ret[1].ResponsibleActor # ""
           /\ r.ret[1].EliminatedActors # <<>>
           /\ Len(r.trace) = first + 1

\* C9: the evaluation log never holds more than 1000 entries; once 1000
\* single-subject evaluations have been logged it holds exactly 1000, and
\* they are the 1000 most recently appended, in the order of appending (the
\* entry appended k-th carries the timestamp k).
C9_LogBound ==
    /\ Len(evaluationLog) <= MaxLogEntries
    /\ nAppended >= MaxLogEntries => Len(evaluationLog) = MaxLogEntries
    /\ nAppended < MaxLogEntries => Len(evaluationLog) = nAppended
    /\ \A k \in 1..Len(evaluationLog) :
          evaluationLog[k].Timestamp = nAppended - Len(evaluationLog) + k

\* More than 1000 evaluations were logged and the oldest entries are gone.
C9_Witness ==
    /\ nAppended > MaxLogEntries
    /\ Len(evaluationLog) = MaxLogEntries
    /\ evaluationLog[1].Timestamp > 1
    /\ evaluationLog[MaxLogEntries].Timestamp = nAppended

\* GetLatestByKind(kind) on the store a call ran against.
StoreSubjects(store, kind) == latestOf(store.latestByUID, UidsOfKind(store.uidsByKind, kind))

\* The subjects of the sequence for which inv is violated, in order.
ViolatedSubjects(inv, subjects) ==
    SelectSeq(subjects, LAMBDA x : Violated(invariants, inv, x))
SatisfiedSubjects(inv, subjects) ==
    SelectSeq(subjects, LAMBDA x : ~Violated(invariants, inv, x))

\* The invariant and the resource of each result of a sequence.
Pairs(results) ==
    [k \in 1..Len(results) |-> <<results[k].InvariantID, results[k].AffectedResource>>]
ExpectedPairs(inv, subjects) ==
    LET violated == ViolatedSubjects(inv, subjects)
    IN [k \in 1..Len(violated) |-> <<inv.ID, AffectedResource(violated[k])>>]

\* C3 as stated: Evaluate(inv) returns one result per subject of
\* GetLatestByKind(inv.Subject.Kind), with violated = false for a satisfied
\* subject, so that there are as many results as subjects of the kind.
C3_BulkShape ==
    \A t \in Threads :
        LET r == last[t] IN
        r.kind = "evaluate" =>
            /\ r.subjects = StoreSubjects(call[t].store, r.inv.Kind)
            /\ Len(r.ret) = Len(r.subjects)
            /\ \A k \in 1..Len(r.subjects) :
                  r.ret[k].Violated = Violated(invariants, r.inv, r.subjects[k])

\* C3 amended: Evaluate(inv) returns one result per violated subject of
\* GetLatestByKind(inv.Subject.Kind), in the order of the subjects and each
\* with violated = true; a satisfied subject contributes no result.
\* EvaluateAll returns these results for every registered invariant, the
\* results of one invariant next to one another.
C3_BulkShapeViolatedOnly ==
    \A t \in Threads :
        LET r == last[t] IN
        /\ r.kind = "evaluate" =>
              /\ r.subjects = StoreSubjects(call[t].store, r.inv.Kind)
              /\ Pairs(r.ret) = ExpectedPairs(r.inv, r.subjects)
              /\ \A k \in 1..Len(r.ret) : r.ret[k].Violated
        /\ r.kind = "all" =>
              /\ \A k \in 1..Len(r.ret) :
                    r.ret[k].Violated /\ r.ret[k].InvariantID \in DOMAIN invariants
              /\ \A id \in DOMAIN invariants :
                    Pairs(SelectSeq(r.ret, LAMBDA v : v.InvariantID = id))
                       = ExpectedPairs(invariants[id],
                                       StoreSubjects(call[t].store, invariants[id].Kind))
              /\ \A i, j, k \in 1..Len(r.ret) :
                    (i < j /\ j < k /\ r.ret[i].InvariantID = r.ret[k].InvariantID)
                       => r.ret[j].InvariantID = r.ret[i].InvariantID

\* EvaluateAll has returned the results of two invariants, and none for a
\* subject that satisfies a third.
C3_Witness ==
    \E t \in Threads :
        LET r == last[t] IN
        /\ r.kind = "all"
        /\ \E i, j \in 1..Len(r.ret) : r.ret[i].InvariantID # r.ret[j].InvariantID
        /\ \E id \in DOMAIN invariants :
              SatisfiedSubjects(invariants[id],
                                StoreSubjects(call[t].store, invariants[id].Kind)) # <<>>

\* Two sequences of results with the same elements, each as many times.
SameResults(a, b) ==
    /\ Len(a) = Len(b)
    /\ \A x \in {a[k] : k \in 1..Len(a)} \cup {b[k] : k \in 1..Len(b)} :
          Cardinality({k \in 1..Len(a) : a[k] = x})
             = Cardinality({k \in 1..Len(b) : b[k] = x})

\* C10: for the same store contents (the registry and the authority map never
\* change), two EvaluateAll calls return the same results as multisets, with
\* identical reason, responsible actor and eliminated actors.
C10_Determinism ==
    \A i, j \in 1..Len(done) :
        (/\ done[i].op = "EvaluateAll"
         /\ done[j].op = "EvaluateAll"
         /\ ~done[i].panicked /\ ~done[j].panicked
         /\ done[i].store = done[j].store) =>
            SameResults(done[i].ret, done[j].ret)

(***************************************************************************)
(* The state store on its own: callers record events                       *)
(***************************************************************************)
\* Three resources, each observed in two versions at two possible times; the
\* Timestamp is a field the caller fills in, so that an event may carry an
\* older time than one recorded before it.
StoreKinds == {"Pod", "Node"}
StoreResources == {<<"pod-1", "Pod">>, <<"pod-2", "Pod">>, <<"node-1", "Node">>}
StoreVersions == {"1", "2"}
StoreTimestamps == {1, 2}
StoreDiff(version) ==
    IF version = "1" THEN [f \in {FReady} |-> VStr("False")]
    ELSE [f \in {FReady} |-> VStr("True")]
StoreEvents ==
    {StateEvent(r[1], r[2], r[1], v, ts, StoreDiff(v)) :
        r \in StoreResources, v \in StoreVersions, ts \in StoreTimestamps}
StoreUIDs == {r[1] : r \in StoreResources}

NextStore == \E e \in StoreEvents : Record(e, MaxStoreEvents)

SpecStore == Init /\ [][NextStore]_vars

\* The indexes of the history that hold an event of uid
IndexesOf(history, uid) == {i \in 1..Len(history) : history[i].UID = uid}

\* The latest event of uid as the specification defines it: the greatest
\* Timestamp, and among equal Timestamps the one inserted last.
LatestIndex(history, uid) ==
    CHOOSE i \in IndexesOf(history, uid) :
        \A j \in IndexesOf(history, uid) :
            \/ history[j].Timestamp < history[i].Timestamp
            \/ history[j].Timestamp = history[i].Timestamp /\ j <= i
LatestByTimestamp(history, uid) == history[LatestIndex(history, uid)]

\* C11: for every uid with a recorded event, GetByUID returns the event of
\* that uid with the greatest timestamp (ties go to the later insertion), so
\* that recording an older event after a newer one does not change it.
C11_LatestByTimestamp ==
    \A u \in StoreUIDs :
        IndexesOf(events, u) # {} => GetByUID(u) = <<LatestByTimestamp(events, u)>>

\* What the code does instead: the event of the uid inserted last wins.
C11_LastWriteWins ==
    \A u \in StoreUIDs :
        IndexesOf(events, u) # {}
            => LET I == IndexesOf(events, u)
                   i == CHOOSE k \in I : \A j \in I : j <= k
               IN GetByUID(u) = <<events[i]>>

\* An older event recorded after a newer one of the same uid
C11_OlderAfterNewer ==
    \E i, j \in 1..Len(events) :
        /\ i < j
        /\ events[i].UID = events[j].UID
        /\ events[j].Timestamp < events[i].Timestamp

\* The uids known for a kind: those of the recorded events of that kind
KnownUIDs(history, kind) ==
    {history[i].UID : i \in {j \in 1..Len(history) : history[j].Kind = kind}}
QueriedKinds == StoreKinds \cup {"Service"}

\* GetLatestByKind(kind) holds one event per known uid of the kind, no uid
\* twice and none missing, each of that kind.
OnePerUID(kind) ==
    LET res == GetLatestByKind(kind)
    IN /\ Len(res) = Cardinality(KnownUIDs(events, kind))
       /\ {res[i].UID : i \in 1..Len(res)} = KnownUIDs(events, kind)
       /\ \A i \in 1..Len(res) : res[i].Kind = kind

\* C12: for every kind, GetLatestByKind returns exactly one event per uid
\* known for the kind, each the latest event (greatest timestamp) of its uid
\* and of that kind; a kind without resources yields the empty sequence.
C12_LatestByKind ==
    \A k \in QueriedKinds :
        /\ OnePerUID(k)
        /\ LET res == GetLatestByKind(k)
           IN \A i \in 1..Len(res) : res[i] = LatestByTimestamp(events, res[i].UID)

\* The part of C12 that does not depend on which event is the latest
C12_OnePerUID == \A k \in QueriedKinds : OnePerUID(k)

\* C13: right after Record(e), GetByUID(e.UID) is present and returns e, its
\* version and field diff included, also when an earlier version of the uid
\* was recorded before; a uid never recorded is absent.
C13_RecordVisibility ==
    [][events' # events
         => /\ \A e \in StoreEvents :
                  e = events'[Len(events')] => GetByUID(e.UID)' = <<e>>
            /\ \A u \in StoreUIDs :
                  IndexesOf(events', u) = {} => GetByUID(u)' = <<>>]_vars

\* Version 2 of a uid recorded after its version 1 is what GetByUID returns,
\* while another uid was never recorded.
C13_Witness ==
    /\ Len(events) = 2
    /\ events[1].UID = events[2].UID
    /\ events[1].Version = "1"
    /\ events[2].Version = "2"
    /\ GetByUID(events[2].UID) = <<events[2]>>
    /\ events[2].FieldDiff # events[1].FieldDiff
    /\ \E u \in StoreUIDs : GetByUID(u) = <<>>

\* C14: no two events of the history share (uid, version), also after Record
\* was called twice with the same uid and version.
C14_HistoryUnique ==
    \A i, j \in 1..Len(events) :
        i # j => <<events[i].UID, events[i].Version>> # <<events[j].UID, events[j].Version>>

\* What the code guarantees: the history is every recorded event, in order.
C14_AppendOnly == [][events' # events => \E e \in StoreEvents : events' = Append(events, e)]_vars

(***************************************************************************)
(* The state store under concurrent callers: Record and GetLatestByKind    *)
(* statement by statement, each goroutine holding s.mu as the code does    *)
(***************************************************************************)
RecorderEvent(g) ==
    StateEvent("pod-" \o ToString(g), "Pod", "pod-" \o ToString(g), "1", 1,
               [f \in {} |-> Null])

storeCallersOnly ==
    UNCHANGED <<mappings, invariants, pg, emu, logging, nReturned, evaluationLog, stack, retval, status, call,
                last, done, nAppended, nCalls, inserted, answers>>

\* s.mu.Lock() blocks while another goroutine holds the lock for writing or reading.
CanLockAlways(m) == TRUE

CanLock(m) == m.writer = 0 /\ m.readers = {}

\* s.mu.RLock() blocks while a goroutine holds the write lock.
CanRLock(m) == m.writer = 0

\* Record: s.mu.Lock()
RecordLock(g) ==
    /\ local[g].pc = "idle"
    /\ CanLock(mu)
    /\ mu' = [mu EXCEPT !.writer = g]
    /\ local' = [local EXCEPT ![g] = [Idle EXCEPT !.pc = "load", !.event = RecorderEvent(g)]]
    /\ UNCHANGED <<events, latestByUID, uidsByKind, observed>>
    /\ storeCallersOnly

\* Record: the read of s.events in s.events = append(s.events, event)
RecordLoad(g) ==
    /\ local[g].pc = "load"
    /\ local' = [local EXCEPT ![g].pc = "append", ![g].events = events]
    /\ UNCHANGED <<events, latestByUID, uidsByKind, mu, observed>>
    /\ storeCallersOnly

\* Record: the assignment of s.events = append(s.events, event)
RecordAppend(g) ==
    /\ local[g].pc = "append"
    /\ events' = Append(local[g].events, local[g].event)
    /\ local' = [local EXCEPT ![g].pc = "latest"]
    /\ UNCHANGED <<latestByUID, uidsByKind, mu, observed>>
    /\ storeCallersOnly

\* Record: s.latestByUID[event.UID] = event
RecordLatest(g) ==
    /\ local[g].pc = "latest"
    /\ LET event == local[g].event
       IN latestByUID' = [u \in DOMAIN latestByUID \cup {event.UID} |->
                             IF u = event.UID THEN event ELSE latestByUID[u]]
    /\ local' = [local EXCEPT ![g].pc = "scan"]
    /\ UNCHANGED <<events, uidsByKind, mu, observed>>
    /\ storeCallersOnly

\* Record: the loop over s.uidsByKind[event.Kind] that sets found
RecordScan(g) ==
    /\ local[g].pc = "scan"
    /\ LET uids == UidsOfKind(uidsByKind, local[g].event.Kind)
       IN local' = [local EXCEPT ![g].pc = "index", ![g].uids = uids,
                                 ![g].found = contains(uids, local[g].event.UID)]
    /\ UNCHANGED <<events, latestByUID, uidsByKind, mu, observed>>
    /\ storeCallersOnly

\* Record: if !found { s.uidsByKind[event.Kind] = append(..., event.UID) }
RecordIndex(g) ==
    /\ local[g].pc = "index"
    /\ LET event == local[g].event
       IN uidsByKind' =
             IF local[g].found THEN uidsByKind
             ELSE [k \in DOMAIN uidsByKind \cup {event.Kind} |->
                      IF k = event.Kind THEN Append(local[g].uids, event.UID)
                      ELSE uidsByKind[k]]
    /\ local' = [local EXCEPT ![g].pc = "unlock"]
    /\ UNCHANGED <<events, latestByUID, mu, observed>>
    /\ storeCallersOnly

\* Record: the deferred s.mu.Unlock() and the return
RecordUnlock(g) ==
    /\ local[g].pc = "unlock"
    /\ mu' = [mu EXCEPT !.writer = 0]
    /\ local' = [local EXCEPT ![g].pc = "done"]
    /\ UNCHANGED <<events, latestByUID, uidsByKind, observed>>
    /\ storeCallersOnly

\* GetLatestByKind: s.mu.RLock()
ReadLock(g, kind, maxReads) ==
    /\ local[g].pc = "idle"
    /\ Len(observed) < maxReads
    /\ CanRLock(mu)
    /\ mu' = [mu EXCEPT !.readers = @ \cup {g}]
    /\ local' = [local EXCEPT ![g] = [Idle EXCEPT !.pc = "range", !.kind = kind]]
    /\ UNCHANGED <<events, latestByUID, uidsByKind, observed>>
    /\ storeCallersOnly

\* GetLatestByKind: the range expression s.uidsByKind[kind], evaluated once
ReadRange(g) ==
    /\ local[g].pc = "range"
    /\ local' = [local EXCEPT ![g].pc = "collect",
                              ![g].uids = UidsOfKind(uidsByKind, local[g].kind)]
    /\ UNCHANGED <<events, latestByUID, uidsByKind, mu, observed>>
    /\ storeCallersOnly

\* GetLatestByKind: the loop body, s.latestByUID[uid] for each uid; the history
\* at that moment is kept with the results.
ReadCollect(g) ==
    /\ local[g].pc = "collect"
    /\ local' = [local EXCEPT ![g].pc = "runlock",
                              ![g].results = latestOf(latestByUID, local[g].uids),
                              ![g].events = events]
    /\ UNCHANGED <<events, latestByUID, uidsByKind, mu, observed>>
    /\ storeCallersOnly

\* GetLatestByKind: the deferred s.mu.RUnlock() and the return
ReadUnlock(g) ==
    /\ local[g].pc = "runlock"
    /\ mu' = [mu EXCEPT !.readers = @ \ {g}]
    /\ observed' = Append(observed, [results |-> local[g].results,
                                     history |-> local[g].events])
    /\ local' = [local EXCEPT ![g] = Idle]
    /\ UNCHANGED <<events, latestByUID, uidsByKind>>
    /\ storeCallersOnly

NextConcurrent ==
    \/ \E g \in Recorders : RecordLock(g)
    \/ \E g \in Recorders : RecordLoad(g)
    \/ \E g \in Recorders : RecordAppend(g)
    \/ \E g \in Recorders : RecordLatest(g)
    \/ \E g \in Recorders : RecordScan(g)
    \/ \E g \in Recorders : RecordIndex(g)
    \/ \E g \in Recorders : RecordUnlock(g)
    \/ ReadLock(Reader, "Pod", MaxReads)
    \/ ReadRange(Reader)
    \/ ReadCollect(Reader)
    \/ ReadUnlock(Reader)

SpecConcurrent == Init /\ [][NextConcurrent]_vars

InRecord(g) == local[g].pc \notin {"idle", "done"}
AllRecorded == \A g \in Recorders : local[g].pc = "done"
UIDsOf(evs) == {evs[i].UID : i \in 1..Len(evs)}

\* C15: Record calls are serialised by the exclusive lock: at most one
\* goroutine is inside Record and none while a reader holds the lock; once N
\* goroutines have recorded N distinct uids of one kind, all N events are in
\* the history and GetLatestByKind returns N events with N distinct uids; a
\* concurrent GetLatestByKind returns the state after some whole Record calls.
C15_SerialisedRecords ==
    /\ Cardinality({g \in Recorders : InRecord(g)}) <= 1
    /\ mu.readers # {} => \A g \in Recorders : ~InRecord(g)
    /\ AllRecorded
         => /\ UIDsOf(events) = {RecorderEvent(g).UID : g \in Recorders}
            /\ Len(events) = NumRecorders
            /\ Len(GetLatestByKind("Pod")) = NumRecorders
            /\ UIDsOf(GetLatestByKind("Pod")) = UIDsOf(events)
    /\ \A k \in 1..Len(observed) :
          /\ Len(observed[k].results) = Len(observed[k].history)
          /\ UIDsOf(observed[k].results) = UIDsOf(observed[k].history)
          /\ \A i \in 1..Len(observed[k].results) :
                \E g \in Recorders : observed[k].results[i] = RecorderEvent(g)

\* Every goroutine has recorded, and a reader that ran in between saw some
\* but not all of the events.
C15_Witness ==
    /\ AllRecorded
    /\ Len(GetLatestByKind("Pod")) = NumRecorders
    /\ \E k \in 1..Len(observed) :
          /\ Len(observed[k].results) > 0
          /\ Len(observed[k].results) < NumRecorders

(***************************************************************************)
(* The authority map on its own: entries are added and callers look up     *)
(***************************************************************************)
\* An entry for the whole status subtree, added after the default entries:
\* with it, "status" and "status.conditions" are both prefixes of the fields
\* under status.conditions.
FStatus == <<"status">>
AddedAuthorities == {<<FStatus, <<"kubelet">>>>}
LookupFields == {FReady, FConditions, FRunning, FNodeName, FStatus, <<"unknown", "field">>}

Answer(op, field, ret) ==
    [op |-> op, field |-> field, ret |-> ret, mappings |-> mappings, inserted |-> inserted]

authorityOnly ==
    UNCHANGED <<events, latestByUID, uidsByKind, invariants, pg, emu, logging, nReturned, evaluationLog, stack,
                retval, status, call, last, done, nAppended, nCalls, mu, local, observed>>

\* cam.addAuthority(field, controllers)
AddAuthority(field, controllers) ==
    /\ mappings' = addAuthority(mappings, field, controllers)
    /\ inserted' = InsertionOrder(<<<<field, controllers>>>>, inserted)
    /\ UNCHANGED answers
    /\ authorityOnly

\* A call of cam.GetAuthorizedControllers(field)
LookupAuthorized(field, maxLookups) ==
    /\ Len(answers) < maxLookups
    /\ \E ret \in GetAuthorizedControllers(mappings, field) :
          answers' = Append(answers, Answer("GetAuthorizedControllers", field, ret))
    /\ UNCHANGED <<mappings, inserted>>
    /\ authorityOnly

\* A call of cam.GetAllControllers()
LookupAll(maxLookups) ==
    /\ Len(answers) < maxLookups
    /\ \E ret \in GetAllControllers(mappings) :
          answers' = Append(answers, Answer("GetAllControllers", NoField, ret))
    /\ UNCHANGED <<mappings, inserted>>
    /\ authorityOnly

NextAuthority ==
    \/ \E a \in AddedAuthorities : AddAuthority(a[1], a[2])
    \/ \E f \in LookupFields : LookupAuthorized(f, MaxLookups)
    \/ LookupAll(MaxLookups)

SpecAuthority == Init /\ [][NextAuthority]_vars

\* authorized_controllers as the specification defines it: the entry of the
\* key equal to field, else the first entry in insertion order whose key is
\* a prefix of field, else the empty sequence.
FirstPrefixInOrder(m, order, field) ==
    LET I == {i \in 1..Len(order) : HasPrefix(field, order[i])}
    IN IF field \in DOMAIN m THEN m[field]
       ELSE IF I = {} THEN <<>>
       ELSE m[order[CHOOSE i \in I : \A j \in I : i <= j]]

AnswersTo(op) == {i \in 1..Len(answers) : answers[i].op = op}

\* C16: GetAuthorizedControllers(field) returns the entry of the exact key,
\* else the first entry in insertion order whose key is a prefix of field,
\* else nothing; two calls for one field on an unchanged map agree.
C16_LookupOrder ==
    \A i \in AnswersTo("GetAuthorizedControllers") :
        /\ answers[i].ret =
              FirstPrefixInOrder(answers[i].mappings, answers[i].inserted, answers[i].field)
        /\ \A j \in AnswersTo("GetAuthorizedControllers") :
              (answers[j].field = answers[i].field /\ answers[j].mappings = answers[i].mappings)
                  => answers[j].ret = answers[i].ret

\* What the code guarantees: the exact key's entry first, else the entry of
\* some key that is a prefix of field, else nothing.
C16_ExactThenSomePrefix ==
    \A i \in AnswersTo("GetAuthorizedControllers") :
        LET a == answers[i]
            P == {k \in DOMAIN a.mappings : HasPrefix(a.field, k)}
        IN IF a.field \in DOMAIN a.mappings THEN a.ret = a.mappings[a.field]
           ELSE IF P = {} THEN a.ret = <<>>
           ELSE \E k \in P : a.ret = a.mappings[k]

\* On the map as initializeAuthorities builds it no field has two prefix keys.
C16_DefaultMapUnique ==
    \A i \in AnswersTo("GetAuthorizedControllers") :
        answers[i].mappings = initializeAuthorities
            => answers[i].ret = FirstPrefixInOrder(answers[i].mappings, answers[i].inserted,
                                                   answers[i].field)

\* The actors of the entries of m, "*" left out
ActorsOf(m) == UNION {{m[k][i] : i \in 1..Len(m[k])} : k \in DOMAIN m} \ {"*"}

\* C18: GetAllControllers() returns every actor of some entry except "*",
\* each once, and in the same order on every call against an unchanged map.
C18_AllControllersStable ==
    \A i \in AnswersTo("GetAllControllers") :
        /\ {answers[i].ret[n] : n \in 1..Len(answers[i].ret)} = ActorsOf(answers[i].mappings)
        /\ Len(answers[i].ret) = Cardinality(ActorsOf(answers[i].mappings))
        /\ \A j \in AnswersTo("GetAllControllers") :
              answers[j].mappings = answers[i].mappings => answers[j].ret = answers[i].ret

\* What the code guarantees: every actor but "*", each once, in some order.
C18_AllControllersOnce ==
    \A i \in AnswersTo("GetAllControllers") :
        /\ {answers[i].ret[n] : n \in 1..Len(answers[i].ret)} = ActorsOf(answers[i].mappings)
        /\ Len(answers[i].ret) = Cardinality(ActorsOf(answers[i].mappings))

\* C17: the responsible actor of a violation caused by an unsatisfied
\* predicate on field f, with A the authorized controllers of f: the single
\* actor of A when |A| = 1, even when it is not the invariant's primary; the
\* primary when |A| > 1 and it is in A; the primary in every other case.
C17_ResponsibilityAttribution ==
    \A t \in ReturnedEwc :
        LET r == last[t] IN
        (IsViolation(r.ret) /\ PredicateFails(r.inv, r.subject)) =>
            \E A \in GetAuthorizedControllers(mappings, r.inv.Predicate.Field) :
                r.ret[1].ResponsibleActor =
                    IF Len(A) = 1 THEN A[1]
                    ELSE IF Len(A) > 1 /\ contains(A, r.inv.Primary) THEN r.inv.Primary
                    ELSE r.inv.Primary

\* A predicate violation on a field with one authorized controller that is
\* not the invariant's primary: that controller is responsible.
C17_Witness ==
    \E t \in ReturnedEwc :
        LET r == last[t] IN
        /\ IsViolation(r.ret)
        /\ PredicateFails(r.inv, r.subject)
        /\ \A A \in GetAuthorizedControllers(mappings, r.inv.Predicate.Field) :
              Len(A) = 1 /\ A[1] # r.inv.Primary /\ r.ret[1].ResponsibleActor = A[1]

\* The other cases of C17 occur as well: several authorized controllers with
\* and without the primary among them, and no authorized controller.
C17_OtherCases ==
    \E t \in ReturnedEwc :
        LET r == last[t] IN
        /\ IsViolation(r.ret)
        /\ PredicateFails(r.inv, r.subject)
        /\ r.ret[1].ResponsibleActor = r.inv.Primary
        /\ \A A \in GetAuthorizedControllers(mappings, r.inv.Predicate.Field) :
              Len(A) > 1 /\ ~contains(A, r.inv.Primary)

\* C19: no evaluate operation ever raises: for every operator of the closed
\* set and field values that are scalars or sequences of scalars, a sequence
\* operand of equals, not_equals or contains included, the call completes
\* with an outcome and a reason and never panics.
C19_NeverPanics == \A i \in 1..Len(done) : ~done[i].panicked

\* What the code guarantees: a call panics only in equals or not_equals, when
\* the field's value and the operand are both sequences.
C19_PanicsOnSequencesOnly ==
    \A i \in 1..Len(done) :
        done[i].panicked
            => /\ done[i].inv.HasPredicate
               /\ done[i].inv.Predicate.Operator \in {"equals", "not_equals"}
               /\ done[i].inv.Predicate.Value.t = "array"
               /\ done[i].inv.Predicate.Field \in DOMAIN done[i].subject.FieldDiff
               /\ done[i].subject.FieldDiff[done[i].inv.Predicate.Field].t = "array"

\* contains with a sequence operand and gt on a string complete, unsatisfied.
C19_OthersComplete ==
    \E i \in 1..Len(done) :
        /\ ~done[i].panicked
        /\ done[i].inv.HasPredicate
        /\ done[i].inv.Predicate.Operator = "contains"
        /\ done[i].inv.Predicate.Value.t = "array"
        /\ IsViolation(done[i].ret)

\* A healthy resource: a Node with Ready=True; a Pod that is scheduled and
\* Ready=True with all its containers running; a Service with endpoints.
HealthyResource(e) ==
    LET d == e.FieldDiff
    IN CASE e.Kind = "Node" -> FReady \in DOMAIN d /\ d[FReady] = VStr("True")
         [] e.Kind = "Pod" ->
              /\ FNodeName \in DOMAIN d
              /\ FReady \in DOMAIN d /\ d[FReady] = VStr("True")
              /\ FRunning \in DOMAIN d /\ d[FRunning].t = "array" /\ d[FRunning].a # <<>>
              /\ \A i \in 1..Len(d[FRunning].a) : d[FRunning].a[i] = VBool(TRUE)
         [] e.Kind = "Service" ->
              /\ FEndpoints \in DOMAIN d /\ d[FEndpoints].t = "array"
              /\ \E i \in 1..Len(d[FEndpoints].a) : isTruthy(d[FEndpoints].a[i])
         [] OTHER -> TRUE
HealthyStore(s) ==
    /\ s.latestByUID # <<>>
    /\ \A u \in DOMAIN s.latestByUID : HealthyResource(s.latestByUID[u])

\* C20: with the default invariants and a store that holds only healthy
\* resources, EvaluateAll returns no result with violated = true.
C20_HealthyBaseline ==
    \A i \in 1..Len(done) :
        (done[i].op = "EvaluateAll" /\ ~done[i].panicked /\ HealthyStore(done[i].store))
            => \A k \in 1..Len(done[i].ret) : ~done[i].ret[k].Violated

\* What the code returns for a healthy store: no violation of a predicate,
\* and for every pod a violation of pod_ready, which requires node_ready
\* through the relation node.
C20_HealthyPodsViolatePodReady ==
    \A i \in 1..Len(done) :
        (done[i].op = "EvaluateAll" /\ ~done[i].panicked /\ HealthyStore(done[i].store))
            => /\ \A k \in 1..Len(done[i].ret) :
                     /\ done[i].ret[k].InvariantID = "pod_ready"
                     /\ done[i].ret[k].Reason = DependencyFailed("node_ready", Unsupported)
               /\ Len(done[i].ret) = Len(StoreSubjects(done[i].store, "Pod"))

(***************************************************************************)
(* Predicate evaluation on its own: evaluatePredicateWithReason and        *)
(* isTruthy applied to values of every dynamic type                        *)
(***************************************************************************)
PredicateValues == {
    Null, VBool(TRUE), VBool(FALSE),
    VInt(0), VInt(1), VInt32(0), VInt64(0), VInt64(2), VFloat(0), VFloat(1), VFloat32(0),
    VStr(""), VStr("False"), VStr("false"), VStr("True"),
    VArr(<<>>), VArr(<<VBool(TRUE)>>), VArr(<<VBool(FALSE), VBool(TRUE)>>),
    VArr(<<VBool(FALSE), VStr("false")>>), VArr(<<VBool(TRUE), VInt64(0)>>),
    VMap }
PredicateOperands == {Null, VStr("True"), VInt(1), VArr(<<VBool(TRUE)>>)}
PredicateSubjects ==
    {StateEvent("pod-1", "Pod", "pod-1", "1", 1, Empty)}
    \cup {StateEvent("pod-1", "Pod", "pod-1", "1", 1, (FReady :> v)) : v \in PredicateValues}
Predicates == {Predicate(FReady, op, w) : op \in Operators, w \in PredicateOperands}

predicateOnly ==
    UNCHANGED <<events, latestByUID, uidsByKind, mappings, invariants, pg, emu, logging, nReturned, evaluationLog,
                stack, retval, status, call, last, done, nAppended, nCalls, mu, local,
                observed, inserted>>

\* A call of evaluatePredicateWithReason(pred, subject)
ApplyPredicate(pred, subject) ==
    /\ answers' = <<[op |-> "evaluatePredicateWithReason", pred |-> pred, subject |-> subject,
                     ret |-> evaluatePredicateWithReason(pred, subject)]>>
    /\ predicateOnly

\* A call of isTruthy(value)
ApplyIsTruthy(value) ==
    /\ answers' = <<[op |-> "isTruthy", value |-> value, ret |-> isTruthy(value)]>>
    /\ predicateOnly

NextPredicate ==
    \/ \E pred \in Predicates, subject \in PredicateSubjects : ApplyPredicate(pred, subject)
    \/ \E v \in PredicateValues : ApplyIsTruthy(v)

SpecPredicate == Init /\ [][NextPredicate]_vars

\* The truthiness table of the specification
TruthyBySpec(v) ==
    CASE v.t = "bool" -> v.b
      [] v.t = "string" -> v.s # "" /\ v.s # "False" /\ v.s # "false"
      [] v.t \in {"int", "int32", "int64", "float32", "float64"} -> v.n # 0
      [] v.t = "nil" -> FALSE
      [] OTHER -> TRUE

\* C23: isTruthy(v) is v for a bool; true for a string iff it is non-empty
\* and neither "False" nor "false"; true for a number iff it is non-zero;
\* false for null; true for any other non-null value.
C23_TruthinessTable ==
    \A i \in AnswersTo("isTruthy") : answers[i].ret = TruthyBySpec(answers[i].value)

\* What the code guarantees: the table holds for every value but a zero of
\* type int32, int64 or float32, which is truthy.
C23_TruthinessButSizedZero ==
    \A i \in AnswersTo("isTruthy") :
        answers[i].ret =
            IF answers[i].value.t \in {"int32", "int64", "float32"} THEN TRUE
            ELSE TruthyBySpec(answers[i].value)

PredicateAnswers(operator) ==
    {i \in AnswersTo("evaluatePredicateWithReason") : answers[i].pred.Operator = operator}
Present(a) == a.pred.Field \in DOMAIN a.subject.FieldDiff
ValueOf(a) == a.subject.FieldDiff[a.pred.Field]
Satisfied(r) == ~r.panic /\ r.sat
Unsatisfied(r) == ~r.panic /\ ~r.sat

\* any_true and all_true as the specification defines them, on truthiness
\* read from tbl: "spec" for the specification's table, "code" for isTruthy.
TruthyIn(tbl, v) == IF tbl = "spec" THEN TruthyBySpec(v) ELSE isTruthy(v)
AnyTrueHolds(tbl, a) ==
    /\ Present(a)
    /\ IF ValueOf(a).t = "array"
       THEN \E k \in 1..Len(ValueOf(a).a) : TruthyIn(tbl, ValueOf(a).a[k])
       ELSE TruthyIn(tbl, ValueOf(a))
AllTrueHolds(tbl, a) ==
    /\ Present(a)
    /\ IF ValueOf(a).t = "array"
       THEN /\ ValueOf(a).a # <<>>
            /\ \A k \in 1..Len(ValueOf(a).a) : TruthyIn(tbl, ValueOf(a).a[k])
       ELSE TruthyIn(tbl, ValueOf(a))
EmptyArray(a) == Present(a) /\ ValueOf(a) = VArr(<<>>)

AnyAllTrue(tbl) ==
    /\ \A i \in PredicateAnswers("any_true") :
          /\ Satisfied(answers[i].ret) <=> AnyTrueHolds(tbl, answers[i])
          /\ Unsatisfied(answers[i].ret) <=> ~AnyTrueHolds(tbl, answers[i])
    /\ \A i \in PredicateAnswers("all_true") :
          /\ Satisfied(answers[i].ret) <=> AllTrueHolds(tbl, answers[i])
          /\ Unsatisfied(answers[i].ret) <=> ~AllTrueHolds(tbl, answers[i])
          /\ EmptyArray(answers[i]) => answers[i].ret.reason.tmpl = "Field %s is empty array"

\* C21: any_true and all_true are unsatisfied on an absent field; on a
\* sequence any_true holds iff some element is truthy and all_true iff the
\* sequence is non-empty and every element is truthy (the empty sequence
\* fails both, all_true with a reason containing "empty array"); on any
\* other value both hold iff the value is truthy.
C21_AnyAllTrue == AnyAllTrue("spec")

\* What the code guarantees: the same, with truthy read as what isTruthy returns.
C21_AnyAllTrueByIsTruthy == AnyAllTrue("code")

\* Equality of two values as the specification defines it for equals
SameValue(v, w) == v = w

\* C22: not_exists is satisfied exactly when exists is unsatisfied, and
\* not_equals exactly when equals is unsatisfied: exists holds iff the field
\* is present, equals iff the field is present and its value equals the
\* operand, not_equals iff the field is absent or the value differs.
C22_NegationPairs ==
    /\ \A i \in PredicateAnswers("exists") :
          /\ Satisfied(answers[i].ret) <=> Present(answers[i])
          /\ Unsatisfied(answers[i].ret)
                <=> Satisfied(evaluatePredicateWithReason(
                                  [answers[i].pred EXCEPT !.Operator = "not_exists"],
                                  answers[i].subject))
    /\ \A i \in PredicateAnswers("not_exists") :
          /\ Satisfied(answers[i].ret) <=> ~Present(answers[i])
          /\ Satisfied(answers[i].ret)
                <=> Unsatisfied(evaluatePredicateWithReason(
                                    [answers[i].pred EXCEPT !.Operator = "exists"],
                                    answers[i].subject))
    /\ \A i \in PredicateAnswers("equals") :
          /\ Satisfied(answers[i].ret)
                <=> (Present(answers[i]) /\ SameValue(ValueOf(answers[i]), answers[i].pred.Value))
          /\ Unsatisfied(answers[i].ret)
                <=> Satisfied(evaluatePredicateWithReason(
                                  [answers[i].pred EXCEPT !.Operator = "not_equals"],
                                  answers[i].subject))
    /\ \A i \in PredicateAnswers("not_equals") :
          /\ Satisfied(answers[i].ret)
                <=> (~Present(answers[i]) \/ ~SameValue(ValueOf(answers[i]), answers[i].pred.Value))
          /\ Satisfied(answers[i].ret)
                <=> Unsatisfied(evaluatePredicateWithReason(
                                    [answers[i].pred EXCEPT !.Operator = "equals"],
                                    answers[i].subject))

\* What the code guarantees: the same whenever the value and the operand are
\* not both sequences; when they are, equals and not_equals both panic.
C22_NegationPairsButSequences ==
    \A i \in PredicateAnswers("equals") \cup PredicateAnswers("not_equals") :
        LET a == answers[i]
            both == Present(a) /\ ValueOf(a).t = "array" /\ a.pred.Value.t = "array"
        IN IF both THEN a.ret.panic
           ELSE /\ ~a.ret.panic
                /\ a.ret.sat = IF a.pred.Operator = "equals"
                               THEN Present(a) /\ SameValue(ValueOf(a), a.pred.Value)
                               ELSE ~Present(a) \/ ~SameValue(ValueOf(a), a.pred.Value)

(***************************************************************************)
(* The engine under a caller that evaluates repeatedly and asks for the    *)
(* evaluation statistics in between                                        *)
(***************************************************************************)
\* A caller invokes EvaluationEngine.GetEvaluationStats().
CallGetEvaluationStats(t) ==
    /\ status[t] = "idle"
    /\ answers' = <<[op |-> "GetEvaluationStats",
                     ret |-> GetEvaluationStats(evaluationLog, invariants)]>>
    /\ UNCHANGED <<events, latestByUID, uidsByKind, mappings, invariants, pg, emu, logging, nReturned, evaluationLog,
                   stack, retval, status, call, last, done, nAppended, nCalls, mu, local,
                   observed, inserted>>

\* The caller evaluates from the empty log for a few rounds, or goes on from
\* the prefilled log until the log has been full for a few appends.
NextStats ==
    \/ RepeatEvaluateWithContext(1, LogExtra)
    \/ nAppended >= LogPrefill /\ RepeatEvaluateWithContext(1, MaxLogEntries + LogExtra)
    \/ EvaluatePredicate(1)
    \/ EvaluateRequirement(1)
    \/ DependencyReturned(1)
    \/ CallGetEvaluationStats(1)

SpecStats == InitLog /\ [][NextStats]_vars

\* C24: the stats are derived from the current log: total_evaluations is
\* the length of the evaluation log (at most 1000), violations_found the
\* number of its entries with result false (at most total_evaluations), and
\* total_invariants the number of registered invariants.
C24_StatsFromLog ==
    [][answers' # answers
         => LET st == answers'[1].ret
            IN /\ st.total_evaluations = Len(evaluationLog')
               /\ st.total_evaluations <= MaxLogEntries
               /\ st.violations_found
                     = Cardinality({k \in 1..Len(evaluationLog') : ~evaluationLog'[k].Result})
               /\ st.violations_found <= st.total_evaluations
               /\ st.total_invariants = Cardinality(DOMAIN invariants')]_vars

\* Stats taken from a log that holds satisfied and violated entries.
C24_Witness ==
    /\ answers # <<>>
    /\ answers[1].op = "GetEvaluationStats"
    /\ answers[1].ret.violations_found > 0
    /\ answers[1].ret.violations_found < answers[1].ret.total_evaluations
    /\ answers[1].ret.total_evaluations = Len(evaluationLog)

\* Stats taken from a full log, after the oldest entries were dropped.
C24_FullLog ==
    /\ answers # <<>>
    /\ answers[1].ret.total_evaluations = MaxLogEntries
    /\ nAppended > MaxLogEntries

(***************************************************************************)
(* The engine over a registry whose requirements form cycles               *)
(***************************************************************************)
\* A list of invariants in which pod_scheduled and pod_ready require each
\* other and self_check requires itself.
CyclicInvariants == <<
    Invariant("pod_scheduled", "Pod", TRUE, Predicate(FNodeName, "exists", Null),
              <<Requirement("pod_ready", "same")>>, "kube-scheduler"),
    Invariant("containers_running", "Pod", TRUE, Predicate(FRunning, "all_true", Null),
              <<>>, "kubelet"),
    Invariant("pod_ready", "Pod", TRUE, Predicate(FReady, "equals", VStr("True")),
              <<Requirement("containers_running", "same"), Requirement("ghost", "same"),
                Requirement("pod_scheduled", "same")>>,
              "kubelet"),
    Invariant("self_check", "Pod", FALSE, NoPredicate,
              <<Requirement("self_check", "same")>>, "kubelet") >>

\* e.invariants[inv.ID] = inv for each invariant of list
LoadInvariants(list) ==
    LET ids == {list[i].ID : i \in 1..Len(list)}
    IN [id \in ids |->
          list[CHOOSE i \in 1..Len(list) :
              /\ list[i].ID = id
              /\ \A j \in (i + 1)..Len(list) : list[j].ID # id]]

Registries == {LoadDefaultInvariants, LoadInvariants(CyclicInvariants)}

InitCycles ==
    /\ events = NewMemoryStore.events
    /\ latestByUID = NewMemoryStore.latestByUID
    /\ uidsByKind = NewMemoryStore.uidsByKind
    /\ mappings = initializeAuthorities
    /\ invariants \in Registries
    /\ evaluationLog = <<>>
    /\ stack = [t \in Threads |-> <<>>]
    /\ retval = [t \in Threads |-> <<>>]
    /\ status = [t \in Threads |-> "idle"]
    /\ call = [t \in Threads |-> NoCall]
    /\ last = [t \in Threads |-> NoReturn]
    /\ done = <<>>
    /\ nAppended = 0
    /\ nCalls = 0
    /\ pg = NewPostgresStore
    /\ emu = NewMutex
    /\ logging = [t \in Threads |-> NotLogging]
    /\ nReturned = 0
    /\ mu = NewMutex
    /\ local = [g \in Goroutines |-> Idle]
    /\ observed = <<>>
    /\ inserted = InsertionOrder(AuthorityCalls, <<>>)
    /\ answers = <<>>

\* The steps of an evaluation under way: a goroutine inside EvaluateWithContext
\* keeps executing it.
EvaluationStep == EvaluatePredicate(1) \/ EvaluateRequirement(1) \/ DependencyReturned(1)

\* The invariants and the resources that the callers pass: the registered
\* invariants, and some that lead into the registry from outside.
CycleInvariants ==
    Registered \cup
    {Invariant("pod_healthy", "Pod", TRUE, Predicate(FReady, "equals", VStr("True")),
               <<Requirement("pod_scheduled", "same"), Requirement("containers_running", "same")>>,
               "kubelet"),
     Invariant("pod_started", "Pod", FALSE, NoPredicate,
               <<Requirement("containers_running", "same")>>, "service-controller")}
CycleSubjects ==
    {StateEvent("pod-1", "Pod", "pod-1", "1", 1, d) : d \in {Healthy, NotReady, Unscheduled}}

NextCycles ==
    \/ \E inv \in CycleInvariants, s \in CycleSubjects :
          CallEvaluateWithContext(1, inv, s, MaxCalls)
    \/ EvaluatePredicate(1)
    \/ EvaluateRequirement(1)
    \/ DependencyReturned(1)

SpecCycles == InitCycles /\ [][NextCycles]_vars /\ WF_vars(EvaluationStep)

\* The registered invariants that inv requires with relation same.
SameEdges(reg, inv) ==
    {inv.Requires[k].Invariant :
        k \in {j \in 1..Len(inv.Requires) :
                  /\ inv.Requires[j].Relation = "same"
                  /\ inv.Requires[j].Invariant \in DOMAIN reg}}

RECURSIVE Reach(_, _, _)
Reach(reg, ids, n) ==
    IF n = 0 THEN ids
    ELSE Reach(reg, ids \cup UNION {SameEdges(reg, reg[id]) : id \in ids}, n - 1)

\* The invariants reachable from inv through requirements with relation same.
Descendants(reg, inv) == Reach(reg, SameEdges(reg, inv), Cardinality(DOMAIN reg))

Acyclic(reg, inv) ==
    \A id \in Descendants(reg, inv) : id \notin Descendants(reg, reg[id])

\* The requirement is passed without a violation: its invariant is not
\* registered, or is one without requirements whose predicate holds of s.
Passes(reg, req, s) ==
    \/ req.Invariant \notin DOMAIN reg
    \/ /\ req.Relation = "same"
       /\ reg[req.Invariant].Requires = <<>>
       /\ PredicateHolds(reg[req.Invariant], s)

\* Where the evaluation of inv against s goes on: the invariant of the first
\* requirement that is not passed, if the predicate of inv holds and the
\* relation of that requirement is same.
Onward(reg, inv, s) ==
    LET open == {k \in 1..Len(inv.Requires) : ~Passes(reg, inv.Requires[k], s)}
        first == CHOOSE k \in open : \A j \in open : k <= j
    IN IF PredicateHolds(inv, s) /\ open # {} /\ inv.Requires[first].Relation = "same"
       THEN {inv.Requires[first].Invariant}
       ELSE {}

RECURSIVE LeadsBack(_, _, _, _, _)
LeadsBack(reg, from, to, s, n) ==
    /\ n > 0
    /\ \E id \in Onward(reg, reg[from], s) :
          id = to \/ LeadsBack(reg, id, to, s, n - 1)

\* inv is registered and lies on a cycle of requirements with relation same
\* on which every predicate is absent or holds of s and every earlier
\* requirement is passed.
OnSatisfiedCycle(reg, inv, s) ==
    /\ inv.ID \in DOMAIN reg
    /\ reg[inv.ID] = inv
    /\ LeadsBack(reg, inv.ID, inv.ID, s, Cardinality(DOMAIN reg))

Diverging ==
    /\ status[1] = "running"
    /\ call[1].op = "EvaluateWithContext"
    /\ OnSatisfiedCycle(invariants, call[1].inv, call[1].subject)

\* C25: EvaluateWithContext(inv, s) terminates when the requirements with
\* relation same reachable from inv form no cycle; when inv lies on a cycle
\* on which every predicate is absent or satisfied by s and the earlier
\* requirements are satisfied, the evaluation recurses as deep as the stack
\* allows and never returns.
C25_TerminationAndCycles ==
    /\ (status[1] = "running" /\ Acyclic(invariants, call[1].inv)) ~> (status[1] = "idle")
    /\ Diverging ~> (Depth(1) = MaxDepth)
    /\ [][Diverging => status'[1] = "running"]_vars

\* An evaluation on the cycle between pod_scheduled and pod_ready has filled
\* the stack, the invariants alternating.
C25_Witness ==
    /\ Diverging
    /\ call[1].inv.ID = "pod_ready"
    /\ Depth(1) = MaxDepth
    /\ stack[1][2].inv.ID = "pod_scheduled"
    /\ stack[1][3].inv.ID = "pod_ready"

\* An evaluation of an invariant with requirements, none on a cycle, has returned.
C25_AcyclicReturned ==
    /\ done # <<>>
    /\ done[Len(done)].inv.Requires # <<>>
    /\ Descendants(invariants, done[Len(done)].inv) # {}
    /\ Acyclic(invariants, done[Len(done)].inv)
    /\ invariants = LoadInvariants(CyclicInvariants)

(***************************************************************************)
(* The engine under goroutines that call EvaluateWithContext concurrently, *)
(* with the statements of logEvaluation as steps of their own              *)
(***************************************************************************)
\* The invariants and the resources that the concurrent callers pass.
EvaluatorInvariants == {
    LoadDefaultInvariants["pod_ready"],
    Invariant("pod_healthy", "Pod", TRUE, Predicate(FReady, "equals", VStr("True")),
              <<Requirement("pod_scheduled", "same"), Requirement("containers_running", "same")>>,
              "kubelet"),
    Invariant("containers_all_up", "Pod", TRUE,
              Predicate(FRunning, "equals", VArr(<<VBool(TRUE), VBool(TRUE)>>)),
              <<>>, "kubelet") }
EvaluatorSubjects == {StateEvent("pod-1", "Pod", "pod-1", "1", 1, Healthy)}

\* The calls made before the concurrent callers start.
CallsBefore == IF nCalls >= LogPrefill THEN LogPrefill ELSE 0

engineOnly == UNCHANGED <<events, latestByUID, uidsByKind, mappings, invariants, pg, mu, local,
                          observed, inserted, answers>>

\* The invocation on top of the stack of goroutine t calls
\* e.logEvaluation(inv.ID, ctx.Resource.UID, result, reason, ...) and will
\* return ret after it.
Defer(t, ret, entry) ==
    /\ logging' = [logging EXCEPT ![t] = [pc |-> "lock", entry |-> <<entry>>,
                                          ret |-> ret, slice |-> <<>>]]
    /\ stack' = [stack EXCEPT ![t] = Front(@) \o <<[Top(t) EXCEPT !.pc = "log"]>>]
    /\ UNCHANGED <<evaluationLog, emu, nReturned, retval, status, call, last, done,
                   nAppended, nCalls>>
    /\ engineOnly

\* EvaluateWithContext, step 1, up to the call of logEvaluation.
PredicateStep(t) ==
    /\ Running(t, "ewc", "start")
    /\ LET f == Top(t)
           r == evaluatePredicateWithReason(f.inv.Predicate, f.subject)
       IN IF ~f.inv.HasPredicate \/ (~r.panic /\ r.sat)
          THEN Goto(t, [f EXCEPT !.pc = "deps"])
          ELSE IF r.panic THEN Unwind(t)
          ELSE \E actor \in determineResponsibility(mappings, f.inv) :
               \E eliminated \in eliminateActors(mappings, f.inv.Predicate.Field, actor) :
                  Defer(t, <<ViolationResult(f.inv.ID, TRUE, r.reason, actor, eliminated,
                                             AffectedResource(f.subject), f.inv.Severity)>>,
                        EvaluationLogEntry(f.inv.ID, f.subject.UID, FALSE, r.reason))

\* EvaluateWithContext, step 3, up to the call of logEvaluation.
RequirementStep(t) ==
    /\ Running(t, "ewc", "deps")
    /\ LET f == Top(t)
           req == f.inv.Requires[f.i]
           reqInv == invariants[req.Invariant]
           depViolation == evaluateDependency(invariants, req)
           violation == DependencyViolation(f.inv, f.subject, reqInv, depViolation)
       IN IF f.i > Len(f.inv.Requires)
          THEN Defer(t, <<>>, EvaluationLogEntry(f.inv.ID, f.subject.UID, TRUE,
                                                 Reason("satisfied", NoField, Null, Null)))
          ELSE IF req.Invariant \notin DOMAIN invariants
          THEN Goto(t, [f EXCEPT !.i = @ + 1])
          ELSE IF req.Relation = "same"
          THEN /\ Depth(t) < MaxDepth
               /\ Push(t, [f EXCEPT !.pc = "wait"], Frame("ewc", reqInv, f.subject, "start"))
          ELSE Defer(t, <<violation>>,
                     EvaluationLogEntry(f.inv.ID, f.subject.UID, FALSE, violation.Reason))

\* EvaluateWithContext, step 3: the recursive evaluation has returned.
DependencyStep(t) ==
    /\ Running(t, "ewc", "wait")
    /\ LET f == Top(t)
           reqInv == invariants[f.inv.Requires[f.i].Invariant]
           violation == DependencyViolation(f.inv, f.subject, reqInv, retval[t][1])
       IN IF retval[t] # <<>>
          THEN Defer(t, <<violation>>,
                     EvaluationLogEntry(f.inv.ID, f.subject.UID, FALSE, violation.Reason))
          ELSE Goto(t, [f EXCEPT !.pc = "deps", !.i = @ + 1])

\* logEvaluation: e.mu.Lock()
LogLock(t) ==
    /\ logging[t].pc = "lock"
    /\ CanLock(emu)
    /\ emu' = [emu EXCEPT !.writer = t]
    /\ logging' = [logging EXCEPT ![t].pc = "read"]
    /\ UNCHANGED <<evaluationLog, nReturned, stack, retval, status, call, last, done,
                   nAppended, nCalls>>
    /\ engineOnly

\* logEvaluation: the entry is built (Timestamp: time.Now()) and
\* e.evaluationLog is read in e.evaluationLog = append(e.evaluationLog, entry)
LogRead(t) ==
    /\ logging[t].pc = "read"
    /\ logging' = [logging EXCEPT ![t].pc = "append",
                                  ![t].entry = <<[@[1] EXCEPT !.Timestamp = nAppended + 1]>>,
                                  ![t].slice = evaluationLog]
    /\ UNCHANGED <<evaluationLog, emu, nReturned, stack, retval, status, call, last, done,
                   nAppended, nCalls>>
    /\ engineOnly

\* logEvaluation: the assignment in e.evaluationLog = append(e.evaluationLog, entry)
LogAppend(t) ==
    /\ logging[t].pc = "append"
    /\ evaluationLog' = Append(logging[t].slice, logging[t].entry[1])
    /\ nAppended' = nAppended + 1
    /\ logging' = [logging EXCEPT ![t].pc = "truncate", ![t].slice = <<>>]
    /\ stack' = [stack EXCEPT ![t] =
                    Front(@) \o <<[Top(t) EXCEPT !.trace = @ \o logging[t].entry]>>]
    /\ UNCHANGED <<emu, nReturned, retval, status, call, last, done, nCalls>>
    /\ engineOnly

\* logEvaluation: if len(e.evaluationLog) > 1000 { e.evaluationLog = ...[len-1000:] }
LogTruncate(t) ==
    /\ logging[t].pc = "truncate"
    /\ evaluationLog' = IF Len(evaluationLog) > MaxLogEntries
                        THEN SubSeq(evaluationLog, Len(evaluationLog) - MaxLogEntries + 1,
                                    Len(evaluationLog))
                        ELSE evaluationLog
    /\ logging' = [logging EXCEPT ![t].pc = "unlock"]
    /\ UNCHANGED <<emu, nReturned, stack, retval, status, call, last, done, nAppended, nCalls>>
    /\ engineOnly

\* logEvaluation: the deferred e.mu.Unlock(); then the invocation returns.
LogUnlock(t) ==
    LET popped == Top(t)
        ret == logging[t].ret
        rest == Front(stack[t])
    IN /\ logging[t].pc = "unlock"
       /\ emu' = [emu EXCEPT !.writer = 0]
       /\ logging' = [logging EXCEPT ![t] = NotLogging]
       /\ nReturned' = nReturned + 1
       /\ stack' = [stack EXCEPT ![t] =
              IF rest = <<>> THEN <<>>
              ELSE Front(rest) \o <<[rest[Len(rest)] EXCEPT !.trace = @ \o popped.trace]>>]
       /\ retval' = [retval EXCEPT ![t] = ret]
       /\ last' = [last EXCEPT ![t] = Returned(popped, ret)]
       /\ IF rest = <<>>
          THEN /\ status' = [status EXCEPT ![t] = "idle"]
               /\ done' = KeepLast(Append(done, [call[t] EXCEPT !.ret = ret]), HistoryLen)
          ELSE UNCHANGED <<status, done>>
       /\ UNCHANGED <<evaluationLog, call, nAppended, nCalls>>
       /\ engineOnly

NextEvaluators ==
    \/ \E t \in Threads, inv \in EvaluatorInvariants, s \in EvaluatorSubjects :
          CallEvaluateWithContext(t, inv, s, CallsBefore + NumEvaluators)
    \/ \E t \in Threads : PredicateStep(t)
    \/ \E t \in Threads : RequirementStep(t)
    \/ \E t \in Threads : DependencyStep(t)
    \/ \E t \in Threads : LogLock(t)
    \/ \E t \in Threads : LogRead(t)
    \/ \E t \in Threads : LogAppend(t)
    \/ \E t \in Threads : LogTruncate(t)
    \/ \E t \in Threads : LogUnlock(t)

SpecEvaluators == InitLog /\ [][NextEvaluators]_vars

\* No goroutine is inside logEvaluation.
Quiet == \A t \in Threads : logging[t].pc = "idle"

Min(a, b) == IF a < b THEN a ELSE b

\* The log holds the latest appends, each once, in the order of their stamps,
\* and as many as invocations have returned, MaxLogEntries at most.
NoneLostNoneTwice ==
    Quiet =>
       /\ Len(evaluationLog) = Min(MaxLogEntries, nReturned)
       /\ nAppended = nReturned
       /\ \A k \in 1..Len(evaluationLog) :
             evaluationLog[k].Timestamp = nAppended - Len(evaluationLog) + k

\* The invocation that returned last in goroutine t appended an entry for its
\* invariant and its subject, whose result is true iff it returned no violation.
OwnEntry(t) ==
    LET r == last[t]
        own == r.trace[Len(r.trace)]
    IN /\ r.trace # <<>>
       /\ own.InvariantID = r.inv.ID
       /\ own.ResourceUID = r.subject.UID
       /\ own.Result = (r.ret = <<>>)
       /\ (logging[t].pc = "idle" /\ nAppended - own.Timestamp < MaxLogEntries)
            => \E k \in 1..Len(evaluationLog) : evaluationLog[k] = own

\* The top-level call of goroutine t is over.
CallOver(t) == status[t] = "idle" /\ call[t].op = "EvaluateWithContext"

\* C26: every invocation of EvaluateWithContext, top-level or recursive,
\* appends exactly one log entry for its invariant and subject, true iff it
\* returns no violation; under any interleaving of concurrent calls no entry
\* is lost or duplicated and the log is as long as the number of completed
\* invocations, 1000 at most.
C26_OneEntryPerInvocation ==
    /\ NoneLostNoneTwice
    /\ \A t \in Threads : last[t] # NoReturn => OwnEntry(t)
    /\ \A t \in Threads :
          CallOver(t) => /\ last[t].inv = call[t].inv
                         /\ last[t].subject = call[t].subject
                         /\ OwnEntry(t)

\* The same of the invocations that return: an invocation that panics is over
\* without an entry.
C26_OneEntryPerReturn ==
    /\ NoneLostNoneTwice
    /\ \A t \in Threads : last[t] # NoReturn => OwnEntry(t)
    /\ \A t \in Threads :
          (CallOver(t) /\ \E k \in 1..Len(done) :
                              /\ ~done[k].panicked
                              /\ done[k].inv = call[t].inv
                              /\ done[k].subject = call[t].subject)
             => /\ last[t].inv = call[t].inv
                /\ last[t].subject = call[t].subject

\* Two goroutines were inside EvaluateWithContext at once, one of them waiting
\* for the lock that the other holds, and the log has since passed its cap.
C26_Contended ==
    /\ logging[1].pc = "lock"
    /\ logging[2].pc \in {"read", "append", "truncate"}
    /\ emu.writer = 2
    /\ Depth(1) = 2
    /\ nAppended >= MaxLogEntries

(***************************************************************************)
(* The PostgresStore under a caller of Record whose database fails         *)
(***************************************************************************)
\* The events recorded and the sets of steps that fail in one call.
PostgresEvents == {e \in StoreEvents : e.Timestamp = 1}
Failures == {{}, {"begin"}, {"upsert"}, {"version"}, {"diffs"}, {"diffs", "commit"}, {"commit"}}

\* A caller invokes PostgresStore.Record(event); the steps in failed fail.
CallPostgresRecord(event, failed, maxCalls) ==
    /\ nCalls < maxCalls
    /\ nCalls' = nCalls + 1
    /\ LET r == PostgresRecord(pg, event, failed)
       IN /\ pg' = r.store
          /\ answers' = <<[op |-> "PostgresStore.Record", event |-> event, failed |-> failed,
                           ret |-> r.ret, issued |-> r.issued]>>
    /\ UNCHANGED <<events, latestByUID, uidsByKind, mappings, invariants, emu, logging, nReturned,
                   evaluationLog, stack, retval, status, call, last, done, nAppended,
                   mu, local, observed, inserted>>

NextPostgres ==
    \E e \in PostgresEvents, failed \in Failures : CallPostgresRecord(e, failed, MaxStoreEvents)

SpecPostgres == Init /\ [][NextPostgres]_vars

\* The steps of s, each once and in the order of RecordSteps, up to step.
IssuedOnceUpTo(s, step) ==
    /\ s = SubSeq(RecordSteps, 1, Len(s))
    /\ s # <<>>
    /\ s[Len(s)] = step

\* C27: when Record of the PostgresStore fails at begin, upsert, version
\* insert or commit, it returns that step's error, has issued no step twice
\* and none after the failing one, and leaves the cache as it was: GetByUID
\* and GetLatestByKind return what they returned before the call.
C27_RecordFailure ==
    [][\A step \in {"begin", "upsert", "version", "commit"} :
          (nCalls' # nCalls /\ answers'[1].ret = RecordError(step)) =>
             /\ IssuedOnceUpTo(answers'[1].issued, step)
             /\ pg'.latestByUID = pg.latestByUID
             /\ pg'.uidsByKind = pg.uidsByKind
             /\ \A uid \in StoreUIDs : PostgresGetByUID(pg', uid) = PostgresGetByUID(pg, uid)
             /\ \A kind \in {"Pod", "Node"} :
                   PostgresGetLatestByKind(pg', kind) = PostgresGetLatestByKind(pg, kind)]_vars

\* The Record of a newer version of a cached object has failed at commit: the
\* cache still answers with the older version.
C27_Witness ==
    /\ answers # <<>>
    /\ answers[1].op = "PostgresStore.Record"
    /\ answers[1].ret = RecordError("commit")
    /\ answers[1].event.Version = "2"
    /\ PostgresGetByUID(pg, answers[1].event.UID) # <<>>
    /\ PostgresGetByUID(pg, answers[1].event.UID)[1].Version = "1"
    /\ <<answers[1].event.UID, "2">> \notin pg.versions

(***************************************************************************)
(* Claims about pod_scheduled, responsibility and the frame of evaluation  *)
(***************************************************************************)
\* The calls that evaluated the registered pod_scheduled against a Pod whose
\* field diff holds spec.nodeName with the value nil.
NullNodeNameCalls ==
    {k \in 1..Len(done) :
        /\ done[k].op = "EvaluateWithContext"
        /\ ~done[k].panicked
        /\ done[k].inv = LoadDefaultInvariants["pod_scheduled"]
        /\ done[k].subject.Kind = "Pod"
        /\ FNodeName \in DOMAIN done[k].subject.FieldDiff
        /\ done[k].subject.FieldDiff[FNodeName] = Null}

\* C28: a Pod whose field diff holds spec.nodeName with a null value violates
\* pod_scheduled: evaluating pod_scheduled against it yields a violation.
C28_UnscheduledPod ==
    \A k \in NullNodeNameCalls : IsViolation(done[k].ret)

\* What the engine does: the key is present, so the predicate exists is
\* satisfied and the evaluation returns no violation.
C28_NullNodeNameSatisfies ==
    \A k \in NullNodeNameCalls : done[k].ret = <<>>

\* Every invariant that callers pass or the registry holds has a primary actor.
AllHavePrimary == \A inv \in InputInvariants : inv.Primary # ""

\* C29: when every invariant has a non-empty primary actor, every violation
\* that an evaluation returns has a non-empty responsible actor, also when it
\* comes from an unsupported or unknown dependency relation.
C29_ViolationsNameActor ==
    \A t \in ReturnedEwc :
        (AllHavePrimary /\ IsViolation(last[t].ret)) =>
            last[t].ret[1].ResponsibleActor # ""

\* What the engine does: a violation names an actor exactly when it goes back
\* to an unsatisfied predicate; one that goes back to an unsupported or
\* unknown relation names none.
C29_ActorFromPredicatesOnly ==
    \A t \in ReturnedEwc :
        (AllHavePrimary /\ IsViolation(last[t].ret)) =>
            (last[t].ret[1].ResponsibleActor = ""
                <=> [last[t].ret[1].Reason EXCEPT !.dep = <<>>] \in {Unsupported, UnknownRelation})

(***************************************************************************)
(* The engines under a caller of every evaluate operation, on a store that *)
(* an ingester has recorded into                                           *)
(***************************************************************************)
NextReadOnly ==
    \/ \E e \in AllEvents : Record(e, MaxEventsAll)
    \/ \E inv \in Registered : CallEvaluate(1, inv, MaxCalls)
    \/ CallEvaluateAll(1, MaxCalls)
    \/ \E inv \in InputInvariants, s \in ContextSubjects :
          CallEvaluateWithContext(1, inv, s, MaxCalls)
    \/ CallGetEvaluationStats(1)
    \/ EvaluateNext(1)
    \/ InvariantReturned(1)
    \/ EvaluateSubjects(1)
    \/ EvaluateSubject(1)
    \/ SubjectReturned(1)
    \/ EvaluatePredicate(1)
    \/ EvaluateRequirement(1)
    \/ DependencyReturned(1)

SpecReadOnly == Init /\ [][NextReadOnly]_vars

\* A step of EvaluateAll, Evaluate or EvaluateWithContext (the call, or a
\* step of a call under way), or a call of GetEvaluationStats.
EvaluationOrStats ==
    \/ \E t \in Threads : status[t] = "running" \/ status'[t] = "running"
    \/ answers' # answers

\* C30: EvaluateAll, Evaluate, EvaluateWithContext and GetEvaluationStats
\* leave the store (history, latest by uid, index by kind), the registry and
\* the authority map as they were; of the engine's state they change the
\* evaluation log only.
C30_EvaluationReadOnly ==
    [][EvaluationOrStats =>
          UNCHANGED <<events, latestByUID, uidsByKind, invariants, mappings, inserted, pg>>]_vars

\* EvaluateAll has returned over a store that holds an event, and has
\* appended to the log.
C30_Witness ==
    /\ events # <<>>
    /\ done # <<>>
    /\ done[Len(done)].op = "EvaluateAll"
    /\ done[Len(done)].store = Store
    /\ evaluationLog # <<>>
    /\ invariants = LoadDefaultInvariants
    /\ mappings = initializeAuthorities

\* GetEvaluationStats has answered after an evaluation that appended to the log.
C30_StatsAfterEvaluation ==
    /\ answers # <<>>
    /\ answers[1].op = "GetEvaluationStats"
    /\ answers[1].ret.total_evaluations > 0
    /\ events # <<>>
====
